---- MODULE Spec2Model ----
(***************************************************************************)
(* A model of the mned ODE stepping library: fixed-step, adaptive,         *)
(* multistep and implicit steppers, the StepUntil event driver, event      *)
(* localization by bisection and the lazy CacheSolver.                     *)
(*                                                                         *)
(* Numbers.  The program computes with float64.  Here a real r is the      *)
(* integer r * Scale (fixed point, Scale = 960 * 960 units per 1.0, so a   *)
(* unit is about 1.1e-6); sums are exact and every product or quotient is  *)
(* rounded toward zero once.  Integers are 32 bits wide, so products and   *)
(* quotients of two fixed-point numbers are formed digit by digit in base  *)
(* 960.  Values are                                                        *)
(* one-dimensional, so the Euclidean norm of a difference is its absolute  *)
(* value.  A []float64 is a reference: `mem` maps slice locations to       *)
(* their content, and a Point holds the location of its Value.             *)
(***************************************************************************)
EXTENDS Integers, Sequences, FiniteSets, TLC

VARIABLES
    meth,   \* the Method the steppers were made by
    ivp,    \* the caller's IVP: [f, Time, ref]
    mem,    \* slice location -> content
    fwd,    \* the Forward stepper
    bwd,    \* the Backward stepper
    obs,    \* per direction: what the caller has observed so far
    su,     \* the activation of StepUntil that is followed
    fp,     \* a call of Event.FindPoint: its arguments and its outcome
    cache,  \* the CacheSolver and what its user has observed
    dense,  \* a call of DenseSolve: its arguments and its outcome
    call    \* a call of a pure function: its arguments and its result

vars == <<meth, ivp, mem, fwd, bwd, obs, su, fp, cache, dense, call>>

\* the value of a variable that a specification does not use
Idle == "idle"

\* With(e, LAMBDA x : body) is body with x standing for the value of e
With(v, F(_)) == F(v)

(***************************************************************************)
(* Fixed-point arithmetic                                                  *)
(***************************************************************************)
Base == 16 * 60

Scale == Base * Base

Abs(x) == IF x < 0 THEN -x ELSE x

\* n / d rounded toward zero (d # 0)
Quot(n, d) ==
    IF (n >= 0) = (d > 0) THEN Abs(n) \div Abs(d) ELSE -(Abs(n) \div Abs(d))

SignOf(x) == IF x < 0 THEN -1 ELSE 1

\* x * y of two fixed-point numbers 0 <= x, y below 48.0, digit by digit
MulMag(x, y) ==
    (x \div Base) * (y \div Base)
    + ((x \div Base) * (y % Base) + (x % Base) * (y \div Base)
       + ((x % Base) * (y % Base)) \div Base) \div Base

\* a * b of two fixed-point numbers (|a|, |b| below 48.0)
FMul(a, b) == SignOf(a) * SignOf(b) * MulMag(Abs(a), Abs(b))

\* n * x / d for a fixed-point x >= 0 and integers n >= 0, d > 0
MulQMag(n, x, d) ==
    ((((x \div Base) * n) \div d) * Base)
    + ((((x \div Base) * n) % d) * Base + (x % Base) * n) \div d

\* n * k / d for a fixed-point k and integers n >= 0, d > 0 (n, d below 2^18)
MulQ(n, k, d) == SignOf(k) * MulQMag(n, Abs(k), d)

\* twice h = [q, r] modulo d, and p plus x modulo d when odd = 1, carrying
\* into q; no intermediate value exceeds d
TimesModDouble(h, d) ==
    IF h.r >= d - h.r THEN [q |-> 2 * h.q + 1, r |-> h.r - (d - h.r)]
    ELSE [q |-> 2 * h.q, r |-> h.r + h.r]

TimesModAdd(p, x, odd, d) ==
    IF odd = 0 THEN p
    ELSE IF p.r >= d - x THEN [q |-> p.q + 1, r |-> p.r - (d - x)]
    ELSE [q |-> p.q, r |-> p.r + x]

\* the quotient q and the remainder r of x * n by d, for 0 <= x < d, formed
\* by doubling
RECURSIVE TimesMod(_, _, _)
TimesMod(x, n, d) ==
    IF n = 0 THEN [q |-> 0, r |-> 0]
    ELSE TimesModAdd(TimesModDouble(TimesMod(x, n \div 2, d), d), x, n % 2, d)

\* the largest divisor whose remainders times Base fit in 32 bits
FastDiv == 2147483647 \div Base - 1

\* the next base-Base digit q of r / y (0 <= r < y) and the remainder r
DivDigit(r, y) ==
    IF y <= FastDiv THEN [q |-> (r * Base) \div y, r |-> (r * Base) % y]
    ELSE TimesMod(r, Base, y)

\* the second digit after the first digit d1
DivDigits(d1, y) == d1.q * Base + DivDigit(d1.r, y).q

\* x / y of two fixed-point numbers x >= 0, y > 0, cut at cap
DivMag(x, y, cap) ==
    IF x \div y >= cap THEN cap * Scale
    ELSE (x \div y) * Scale + DivDigits(DivDigit(x % y, y), y)

\* n / d of two fixed-point numbers (d # 0), cut at cap (cap.0 in size)
FDivCap(n, d, cap) == SignOf(n) * SignOf(d) * DivMag(Abs(n), Abs(d), cap)

FDiv(n, d) == FDivCap(n, d, 2048)

\* largest r in lo..hi with r * r <= n (bisection; lo * lo <= n)
RECURSIVE SqrtIn(_, _, _)
SqrtIn(n, lo, hi) ==
    IF lo >= hi THEN lo
    ELSE LET mid == (lo + hi + 1) \div 2
         IN  IF mid * mid <= n THEN SqrtIn(n, mid, hi) ELSE SqrtIn(n, lo, mid - 1)

ISqrt(n) == SqrtIn(n, 0, 46340)

\* largest r in lo..hi with FMul(r, r) <= x (bisection; FMul(lo, lo) <= x)
RECURSIVE FSqrtIn(_, _, _)
FSqrtIn(x, lo, hi) ==
    IF lo >= hi THEN lo
    ELSE LET mid == (lo + hi + 1) \div 2
         IN  IF FMul(mid, mid) <= x THEN FSqrtIn(x, mid, hi)
             ELSE FSqrtIn(x, lo, mid - 1)

\* fixed-point square root of a fixed-point number x >= 0
FSqrtFrom(x, lo) == FSqrtIn(x, lo, lo + Base - 1)

FSqrt(x) == FSqrtFrom(x, ISqrt(x) * Base)

\* fixed-point fourth root of a fixed-point number x >= 0
FRoot4(x) == FSqrt(FSqrt(x))

(***************************************************************************)
(* Bounds of the model                                                     *)
(***************************************************************************)
MaxCalls == 6       \* Next/NextStep calls a caller makes in all
MaxBisect == 16     \* bisection iterations followed in FindPoint before the
                    \* search is reported as never returning
MaxSteps == 6       \* loop iterations of StepUntil that are followed
MaxTrials == 24     \* loop iterations followed inside one call before the
                    \* call is reported as never returning ("hang")

(***************************************************************************)
(* common.go: Point, IVP, Clone                                            *)
(***************************************************************************)
Locs == {"ivp", "fwd", "bwd"}

\* (mutant) a shallow copy: the clone shares the slice of p
PointClone_shallow(p, m, loc) ==
    [pt |-> [Time |-> p.Time, ref |-> p.ref], m |-> m]

\* Point.Clone: a new slice at location `loc` with the content of p's slice
PointClone(p, m, loc) ==
    [pt |-> [Time |-> p.Time, ref |-> loc], m |-> [m EXCEPT ![loc] = m[p.ref]]]

\* IVP.Clone: shares Derivative, deep-copies Start
IVPClone(i, m, loc) ==
    LET c == PointClone([Time |-> i.Time, ref |-> i.ref], m, loc)
    IN  [ivp |-> [f |-> i.f, Time |-> c.pt.Time, ref |-> c.pt.ref], m |-> c.m]

(***************************************************************************)
(* Derivative functions: f(t, x) = a*x + b on the domain lo <= t <= hi.    *)
(* A pure partial function; ok = FALSE outside the domain, and f.junk says *)
(* what it returns along with ok = FALSE: nil or a vector.                 *)
(***************************************************************************)
Junk == {"nil", "vector"}

Derivative(f, t, x) ==
    [ok |-> f.lo <= t /\ t <= f.hi, v |-> FMul(f.a, x) + f.b]

(***************************************************************************)
(* part_005 (Euler) and part_003 (RK4): fixed-step update functions.       *)
(* Each takes the state (f, t, x) and h and gives [ok, x]: the content of  *)
(* ivp.Start.Value afterwards (unchanged on failure: they write last).     *)
(***************************************************************************)
eulerStep(f, t, x, h) ==
    LET d == Derivative(f, t, x)
    IN  IF ~d.ok THEN [ok |-> FALSE, x |-> x, k1 |-> 0, fault |-> "none"]
        ELSE [ok |-> TRUE, x |-> x + FMul(h, d.v), k1 |-> 0,
              fault |-> "none"]

\* RK4Step returns k1, which it has already multiplied by h
RK4Step(f, t, x, h) ==
    LET fail == [ok |-> FALSE, x |-> x, k1 |-> 0, fault |-> "none"] IN
    With(Derivative(f, t, x), LAMBDA d1 :
      IF ~d1.ok THEN fail ELSE
    With(FMul(d1.v, h), LAMBDA k1 :
    With(Derivative(f, t + Quot(h, 2), x + Quot(k1, 2)), LAMBDA d2 :
      IF ~d2.ok THEN fail ELSE
    With(FMul(d2.v, h), LAMBDA k2 :
    With(Derivative(f, t + Quot(h, 2), x + Quot(k2, 2)), LAMBDA d3 :
      IF ~d3.ok THEN fail ELSE
    With(FMul(d3.v, h), LAMBDA k3 :
    With(Derivative(f, t + h, x + k3), LAMBDA d4 :
      IF ~d4.ok THEN fail ELSE
    With(FMul(d4.v, h), LAMBDA k4 :
      [ok |-> TRUE, x |-> x + Quot(k1 + 2 * k2 + 2 * k3 + k4, 6),
       k1 |-> k1, fault |-> "none"]))))))))

\* modEulerStep gives [ok, x, k1, fault, used].  The ok of the second
\* evaluation is not looked at: when it is false, deriv2 is whatever the
\* Derivative function returned with it, nil (then deriv2[i] is an index
\* out of range: a panic) or a vector (then it is used).
modEulerStep(f, t, x, h) ==
    With(Derivative(f, t, x), LAMBDA d1 :
      IF ~d1.ok
      THEN [ok |-> FALSE, x |-> x, k1 |-> 0, fault |-> "none",
            used |-> FALSE]
      ELSE
    With(Derivative(f, t + h, x + FMul(h, d1.v)), LAMBDA d2 :
      IF ~d2.ok /\ f.junk = "nil"
      THEN [ok |-> FALSE, x |-> x, k1 |-> 0, fault |-> "panic",
            used |-> TRUE]
      ELSE [ok |-> TRUE, x |-> x + Quot(FMul(h, d1.v + d2.v), 2), k1 |-> 0,
            fault |-> "none", used |-> ~d2.ok]))

rk4Step(f, t, x, h) == RK4Step(f, t, x, h)

\* the `method` field of a stepper: a fixed-step update function
ApplyMethod(name, f, t, x, h) ==
    IF name = "euler" THEN eulerStep(f, t, x, h)
    ELSE IF name = "modEuler" THEN modEulerStep(f, t, x, h)
    ELSE rk4Step(f, t, x, h)

(***************************************************************************)
(* part_000: Stepper, fixedStepper, FixedStepMethod                        *)
(*                                                                         *)
(* A stepper is one record for every kind:                                 *)
(*   kind, method  which stepper, and the inner fixed-step function        *)
(*   f, t, ref     the private IVP state: Derivative, Start.Time and the   *)
(*                 location of Start.Value; own is the location of the     *)
(*                 slices the stepper allocates itself                     *)
(*   h, hmin, hmax, tol, order   step and step control                     *)
(*   init, steps   bootstrap counter / position and the history window     *)
(* A call gives [s, m, ok, pt, fault]: the stepper and memory afterwards,  *)
(* the second return value, the point returned (by content) and whether    *)
(* the call returned at all ("none"), panicked or never returns ("hang").  *)
(***************************************************************************)
Nil == 0 - 2000000000          \* a nil slice

NoSteps == [i \in 0..4 |-> [Value |-> Nil, Deriv |-> Nil]]

Ret(s, m, ok) ==
    [s |-> s, m |-> m, ok |-> ok, fault |-> "none",
     pt |-> [Time |-> s.t, Value |-> m[s.ref]]]

Fault(s, m, what) ==
    [s |-> s, m |-> m, ok |-> FALSE, fault |-> what,
     pt |-> [Time |-> s.t, Value |-> m[s.ref]]]

\* fixedStepper.NextStep: a panic of the method is a panic of the call.
\* (mutant) the step is taken but Start.Time is not advanced
fixedStepper_NextStep_samet(s, m, h) ==
    With(ApplyMethod(s.method, s.f, s.t, m[s.ref], h), LAMBDA r :
        IF r.fault # "none" THEN Fault(s, m, r.fault)
        ELSE IF ~r.ok THEN Ret(s, m, FALSE)
        ELSE Ret(s, [m EXCEPT ![s.ref] = r.x], TRUE))

fixedStepper_NextStep(s, m, h) ==
    With(ApplyMethod(s.method, s.f, s.t, m[s.ref], h), LAMBDA r :
        IF r.fault # "none" THEN Fault(s, m, r.fault)
        ELSE IF ~r.ok THEN Ret(s, m, FALSE)
        ELSE Ret([s EXCEPT !.t = s.t + h], [m EXCEPT ![s.ref] = r.x], TRUE))

fixedStepper_Next(s, m) == fixedStepper_NextStep(s, m, s.h)

(***************************************************************************)
(* part_000: AdaptiveUpdateStep, adaptiveStepper (Richardson wrapper)      *)
(***************************************************************************)
QMin == Scale \div 10      \* 0.1
QMax == 4 * Scale          \* 4

\* math.Pow(adjust, 1/order) for the orders the methods use; q is clamped
\* to 4 afterwards, so adjust is cut at 4^order first
PowInv(adjust, order) ==
    IF order = 1 THEN adjust
    ELSE IF order = 2
    THEN FSqrt(IF adjust > 16 * Scale THEN 16 * Scale ELSE adjust)
    ELSE FRoot4(IF adjust > 256 * Scale THEN 256 * Scale ELSE adjust)

\* q < 0.1 gives 0.1 and q > 4 gives 4
ClampQ(q) == IF q < QMin THEN QMin ELSE IF q > QMax THEN QMax ELSE q

\* (mutant) a newStep beyond max in size gives max, whatever its sign
ClampStep_unsigned(newStep, max) ==
    IF Abs(newStep) > max THEN max ELSE newStep

\* newStep beyond max in size gives max with the sign of newStep
ClampStep(newStep, max) ==
    IF Abs(newStep) > max THEN (IF newStep > 0 THEN max ELSE -max)
    ELSE newStep

\* adjust := tol * math.Abs(step) / (2 * err), cut at 256 = 4^4 (q is
\* clamped to 4 afterwards and the orders are at most 4)
Adjust(step, tol, err) == FDivCap(FMul(tol, Abs(step)), 2 * err, 256)

\* tol * |step| > 0 in every call: err = 0 makes adjust +Inf, so q = 4
AdaptiveUpdateStep(step, tol, err, max, order) ==
    ClampStep(FMul(ClampQ(IF err = 0 THEN QMax
                          ELSE PowInv(Adjust(step, tol, err), order)),
                   step),
              max)

Pow2(k) == 2 ^ k

\* The slices of one adaptiveStepper.Next call: S is the slice the state
\* held on entry, F and H are `full` and `half`; cur names the slice
\* s.state.Start.Value refers to.
Cell(L, c) == IF c = "S" THEN L.S ELSE IF c = "F" THEN L.F ELSE L.H

SetCell(L, c, v) ==
    IF c = "S" THEN [L EXCEPT !.S = v]
    ELSE IF c = "F" THEN [L EXCEPT !.F = v] ELSE [L EXCEPT !.H = v]

\* One call of getSteps is one trial.  L.log lists the trials of the call
\* of Next: the time t and the step h, the content x of the slice the state
\* referred to on entry, the content xF of `full` when the full step was
\* applied to it and xH of `half` when the first half step was, the
\* Start.Time tH of the state when the second half step was applied, the
\* stage reached and the verdict of Next on it.
Trial(L, xF, xH, tH, stage) ==
    [t |-> L.t, h |-> L.step, x |-> Cell(L, L.cur), xF |-> xF, xH |-> xH,
     tH |-> tH, stage |-> stage, err |-> Nil, verdict |-> "fail"]

adaptiveStepper_getSteps(s, L) ==
    LET orig == L.cur IN
    With([SetCell(L, "F", Cell(L, orig)) EXCEPT !.cur = "F"], LAMBDA L1 :
    With(ApplyMethod(s.method, s.f, L.t, L1.F, L.step), LAMBDA r1 :
      IF ~r1.ok
      THEN [ok |-> FALSE,
            L |-> [L1 EXCEPT !.log = Append(@, Trial(L, L1.F, Nil, Nil,
                                                     "full"))]] ELSE
    With(SetCell(L1, "F", r1.x), LAMBDA L2 :
    With([SetCell(L2, "H", Cell(L2, orig)) EXCEPT !.cur = "H"], LAMBDA L3 :
    With(ApplyMethod(s.method, s.f, L.t, L3.H, Quot(L.step, 2)), LAMBDA r2 :
      IF ~r2.ok
      THEN [ok |-> FALSE,
            L |-> [L3 EXCEPT !.log = Append(@, Trial(L, L1.F, L3.H, Nil,
                                                     "half1"))]] ELSE
    With(SetCell(L3, "H", r2.x), LAMBDA L4 :
    With(ApplyMethod(s.method, s.f, L.t, L4.H, Quot(L.step, 2)), LAMBDA r3 :
      IF ~r3.ok
      THEN [ok |-> FALSE,
            L |-> [L4 EXCEPT !.log = Append(@, Trial(L, L1.F, L3.H, L.t,
                                                     "half2"))]]
      ELSE [ok |-> TRUE,
            L |-> [SetCell(L4, "H", r3.x)
                     EXCEPT !.cur = orig,
                            !.log = Append(@, Trial(L, L1.F, L3.H, L.t,
                                                    "done"))]]
    )))))))

\* for !s.getSteps(full, half) { if s.step *= 0.5; s.step < s.hmin {return} }
RECURSIVE adaptiveStepper_retry(_, _)
adaptiveStepper_retry(s, L) ==
    With(adaptiveStepper_getSteps(s, L), LAMBDA g :
      IF g.ok THEN g ELSE
    With([g.L EXCEPT !.step = Quot(g.L.step, 2)], LAMBDA Lh :
      IF Lh.step < s.hmin THEN [ok |-> FALSE, L |-> Lh]
      ELSE adaptiveStepper_retry(s, Lh)))

\* Next's verdict on the trial that getSteps completed last
Judged(L, err, verdict) ==
    [L EXCEPT !.log = [k \in 1..Len(L.log) |->
                        IF k < Len(L.log) THEN L.log[k]
                        ELSE [t |-> L.log[k].t, h |-> L.log[k].h,
                              x |-> L.log[k].x, xF |-> L.log[k].xF,
                              xH |-> L.log[k].xH, tH |-> L.log[k].tH,
                              stage |-> L.log[k].stage, err |-> err,
                              verdict |-> verdict]]]

\* the step is accepted: the extrapolated value is written, Start.Time
\* advances by s.step, and then the step is adapted
adaptiveStepper_accept(s, G, err, nh) ==
    [ok |-> TRUE,
     L |-> [SetCell(Judged(G, err, "accept"), G.cur,
                    Quot(Pow2(s.order) * G.H - G.F, Pow2(s.order) - 1))
              EXCEPT !.t = G.t + G.step, !.step = nh]]

\* the outer loop of Next: [ok, L]
RECURSIVE adaptiveStepper_loop(_, _)
adaptiveStepper_loop(s, L) ==
    IF ~(L.step >= s.hmin) THEN [ok |-> FALSE, L |-> L] ELSE
    With(adaptiveStepper_retry(s, L), LAMBDA g :
      IF ~g.ok THEN [ok |-> FALSE, L |-> g.L] ELSE
    With(g.L, LAMBDA G :
    With(Pow2(s.order) - 1, LAMBDA den :
    With(Quot(Abs(G.F - G.H) * Pow2(s.order), den), LAMBDA err :
    With(AdaptiveUpdateStep(G.step, s.tol, err, s.hmax, s.order), LAMBDA nh :
      IF err > FMul(s.tol, Abs(G.step))
      THEN adaptiveStepper_loop(s, [Judged(G, err, "reject")
                                      EXCEPT !.step = nh])
      ELSE adaptiveStepper_accept(s, G, err, nh))))))

\* The slice the state refers to afterwards is the one it held on entry
\* (location s.ref) or one this call allocated (the stepper's own).
adaptiveStepper_Next(s, m) ==
    With(adaptiveStepper_loop(s, [t |-> s.t, step |-> s.h, cur |-> "S",
                                  S |-> m[s.ref], F |-> 0, H |-> 0,
                                  log |-> <<>>]), LAMBDA r :
    With(IF r.L.cur = "S" THEN s.ref ELSE s.own, LAMBDA loc :
      Ret([s EXCEPT !.t = r.L.t, !.h = r.L.step, !.ref = loc,
                    !.trials = r.L.log],
          [[m EXCEPT ![s.ref] = r.L.S] EXCEPT ![loc] = Cell(r.L, r.L.cur)],
          r.ok)))

(***************************************************************************)
(* part_004: rkFehlbergStepper                                             *)
(***************************************************************************)
\* one trial of the loop body: "fail" (a stage left the domain), or the
\* error estimate and the fourth-order increment.  Each product n * k / d is
\* formed by MulQ without an intermediate above the integer range; in the
\* argument of the fourth stage the quotient by 2197 is taken term by term
\* for the same reason.
rkFehlberg_trial(s, x, step) ==
    LET t == s.t IN
    With(Derivative(s.f, t, x), LAMBDA d1 :
    With(FMul(d1.v, step), LAMBDA k1 :
    With(Derivative(s.f, t + Quot(step, 4), x + Quot(k1, 4)), LAMBDA d2 :
    With(FMul(d2.v, step), LAMBDA k2 :
    With(Derivative(s.f, t + Quot(step * 3, 8),
                    x + Quot(3 * k1 + 9 * k2, 32)), LAMBDA d3 :
    With(FMul(d3.v, step), LAMBDA k3 :
    With(Derivative(s.f, t + Quot(step * 12, 13),
                    x + MulQ(1932, k1, 2197) - MulQ(7200, k2, 2197)
                      + MulQ(7296, k3, 2197)), LAMBDA d4 :
    With(FMul(d4.v, step), LAMBDA k4 :
    With(Derivative(s.f, t + step,
                    x + MulQ(439, k1, 216) - 8 * k2 + MulQ(3680, k3, 513)
                      - MulQ(845, k4, 4104)), LAMBDA d5 :
    With(FMul(d5.v, step), LAMBDA k5 :
    With(Derivative(s.f, t + Quot(step, 2),
                    x - MulQ(8, k1, 27) + 2 * k2 - MulQ(3544, k3, 2656)
                      + MulQ(1859, k4, 4104) - MulQ(11, k5, 40)), LAMBDA d6 :
    With(FMul(d6.v, step), LAMBDA k6 :
      [ok  |-> d1.ok /\ d2.ok /\ d3.ok /\ d4.ok /\ d5.ok /\ d6.ok,
       err |-> Abs(Quot(k1, 360) - MulQ(128, k3, 4275) - MulQ(2197, k4, 75240)
                   + Quot(k5, 50) + MulQ(2, k6, 55)),
       inc |-> MulQ(25, k1, 216) + MulQ(1408, k3, 2565) + MulQ(2197, k4, 4104)
               - Quot(k5, 5)]
    ))))))))))))

\* The loop `for s.step >= s.hmin`: [ok, step, x, t, hang, log].  log
\* lists the trials of the call: the time t, the step h and the value x of
\* s.current when the trial began, the error estimate (Nil when a stage
\* left the domain) and what the loop did with the trial.
RECURSIVE rkFehlberg_loop(_, _, _, _, _)
rkFehlberg_loop(s, x, step, fuel, log) ==
    IF ~(step >= s.hmin)
    THEN [ok |-> FALSE, hang |-> FALSE, step |-> step, x |-> x, t |-> s.t,
          log |-> log]
    ELSE IF fuel = 0
    THEN [ok |-> FALSE, hang |-> TRUE, step |-> step, x |-> x, t |-> s.t,
          log |-> log]
    ELSE
    With([t |-> s.t, h |-> step, x |-> x, err |-> Nil, verdict |-> "fail"],
         LAMBDA T :
    With(rkFehlberg_trial(s, x, step), LAMBDA r :
      IF ~r.ok
      THEN rkFehlberg_loop(s, x, Quot(step, 2), fuel - 1, Append(log, T))
      ELSE
    With(AdaptiveUpdateStep(step, s.tol, r.err, s.hmax, 4), LAMBDA nh :
      IF r.err > s.tol
      THEN rkFehlberg_loop(s, x, nh, fuel - 1,
               Append(log, [T EXCEPT !.err = r.err, !.verdict = "reject"]))
      ELSE [ok |-> TRUE, hang |-> FALSE, step |-> nh, x |-> x + r.inc,
            t |-> s.t + step,
            log |-> Append(log, [T EXCEPT !.err = r.err,
                                          !.verdict = "accept"])])))

rkFehlbergStepper_Next(s, m) ==
    With(rkFehlberg_loop(s, m[s.ref], s.h, MaxTrials, <<>>), LAMBDA r :
    With([s EXCEPT !.t = r.t, !.h = r.step, !.rkf = r.log], LAMBDA s1 :
    With([m EXCEPT ![s.ref] = r.x], LAMBDA m1 :
      IF r.hang THEN Fault(s1, m1, "hang") ELSE Ret(s1, m1, r.ok))))

(***************************************************************************)
(* mstep/common.go: Implicit, Shift; mstep/adams.go                        *)
(***************************************************************************)
\* Implicit(steps[off:], a, b, step): [panic, v].  The result has the
\* length of steps[off].Value, so a nil steps[off].Value gives an empty
\* result; reading another nil Value or Deriv is an index out of range.
Implicit(steps, off, a, b, step) ==
    LET empty == steps[off].Value = Nil
        bad == \/ \E i \in 1..Len(a) : steps[off + i - 1].Value = Nil
               \/ \E i \in 1..Len(b) : steps[off + i - 1].Deriv = Nil
        RECURSIVE SumA(_)
        SumA(i) == IF i = 0 THEN 0
                   ELSE SumA(i - 1) + a[i] * steps[off + i - 1].Value
        RECURSIVE SumB(_)
        SumB(i) == IF i = 0 THEN 0
                   ELSE SumB(i - 1) + b[i] * steps[off + i - 1].Deriv
    IN  IF empty THEN [panic |-> FALSE, v |-> Nil]
        ELSE IF bad THEN [panic |-> TRUE, v |-> Nil]
        ELSE [panic |-> FALSE,
              v |-> SumA(Len(a)) + Quot(FMul(step, SumB(Len(b))), 24)]

\* Shift(steps[:n]): steps[i] = steps[i-1] for i = n-1 .. 1
Shift(steps, n) ==
    [i \in 0..4 |-> IF i >= 1 /\ i <= n - 1 THEN steps[i - 1] ELSE steps[i]]

\* the b coefficients are held as multiples of 1/24
adamsBashfordStep(steps, off, h) ==
    Implicit(steps, off, <<1>>, <<55, -59, 37, -9>>, h)

adamsMoultonStep(steps, off, h) ==
    Implicit(steps, off, <<0, 1>>, <<9, 19, -5, 1>>, h)

DerivOrNil(d) == IF d.ok THEN d.v ELSE Nil

\* (mutant) the bootstrap branch leaves s.init as it is
adamsBashfordStepper_NextStep_noinit(s, m, h) ==
    IF s.h = 0 THEN Ret(s, m, FALSE)
    ELSE
      With(RK4Step(s.f, s.t, m[s.ref], h), LAMBDA r :
        IF ~r.ok THEN Ret(s, m, FALSE)
        ELSE Ret([s EXCEPT !.t = s.t + h,
                           !.steps = [s.steps EXCEPT ![s.init].Deriv = r.k1,
                                                     ![s.init - 1].Value = r.x]],
                 [m EXCEPT ![s.ref] = r.x], TRUE))

adamsBashfordStepper_NextStep(s, m, h) ==
    IF s.h = 0 THEN Ret(s, m, FALSE)
    ELSE IF s.init # 0 THEN
      With(RK4Step(s.f, s.t, m[s.ref], h), LAMBDA r :
        IF ~r.ok THEN Ret(s, m, FALSE)
        ELSE Ret([s EXCEPT !.t = s.t + h, !.init = s.init - 1,
                           !.steps = [s.steps EXCEPT ![s.init].Deriv = r.k1,
                                                     ![s.init - 1].Value = r.x]],
                 [m EXCEPT ![s.ref] = r.x], TRUE))
    ELSE
      With(Derivative(s.f, s.t, m[s.ref]), LAMBDA d :
      With([s.steps EXCEPT ![0].Deriv = DerivOrNil(d)], LAMBDA st1 :
        IF ~d.ok THEN Ret([s EXCEPT !.h = 0, !.steps = st1], m, FALSE) ELSE
      With(adamsBashfordStep(st1, 0, h), LAMBDA v :
        IF v.panic THEN Fault([s EXCEPT !.steps = st1], m, "panic")
        \* s.problem.Start.Value becomes the slice Implicit allocated
        ELSE Ret([s EXCEPT !.t = s.t + h, !.ref = s.own,
                           !.steps = [Shift(st1, 4) EXCEPT ![0].Value = v.v]],
                 [m EXCEPT ![s.own] = v.v], TRUE))))

adamsBashfordStepper_Next(s, m) == adamsBashfordStepper_NextStep(s, m, s.h)

(***************************************************************************)
(* mstep/pc.go: pcStepper                                                  *)
(***************************************************************************)
pcStepper_NextStep(s, m, h) ==
    IF s.h = 0 THEN Ret(s, m, FALSE)
    ELSE IF s.init # 0 THEN
      \* the bootstrap branch leaves s.init as it is
      With(RK4Step(s.f, s.t, m[s.ref], h), LAMBDA r :
        IF ~r.ok THEN Ret(s, m, FALSE)
        ELSE Ret([s EXCEPT !.t = s.t + h,
                           !.steps = [s.steps EXCEPT ![s.init + 1].Deriv = r.k1,
                                                     ![s.init].Value = r.x]],
                 [m EXCEPT ![s.ref] = r.x], TRUE))
    ELSE
      With(Derivative(s.f, s.t, m[s.ref]), LAMBDA d1 :
      With([s.steps EXCEPT ![1].Deriv = DerivOrNil(d1)], LAMBDA st1 :
        IF ~d1.ok THEN Ret([s EXCEPT !.h = 0, !.steps = st1], m, FALSE) ELSE
      With(adamsBashfordStep(st1, 1, h), LAMBDA p :
        IF p.panic THEN Fault([s EXCEPT !.steps = st1], m, "panic") ELSE
      With(Derivative(s.f, s.t + h, p.v), LAMBDA d0 :
      With([st1 EXCEPT ![0].Value = p.v, ![0].Deriv = DerivOrNil(d0)],
           LAMBDA st3 :
        IF ~d0.ok
        THEN Ret([s EXCEPT !.steps = st3, !.ref = s.own],
                 [m EXCEPT ![s.own] = st3[1].Value], FALSE) ELSE
      With(adamsMoultonStep(st3, 0, h), LAMBDA c :
        IF c.panic THEN Fault([s EXCEPT !.steps = st3], m, "panic")
        ELSE Ret([s EXCEPT !.t = s.t + h, !.ref = s.own,
                   !.steps = [Shift([st3 EXCEPT ![0].Value = c.v], 5)
                                EXCEPT ![0] = [Value |-> Nil, Deriv |-> Nil],
                                       ![1].Deriv = Nil]],
                 [m EXCEPT ![s.own] = c.v], TRUE)))))))

pcStepper_Next(s, m) == pcStepper_NextStep(s, m, s.h)

(***************************************************************************)
(* mstep/pc.go: adaptivePCStepper.  A is the mutable part of the stepper:  *)
(* [steps, t (lasttime), h, pos].  Each operator gives A afterwards with   *)
(* ok and, when the call cannot return, fault.  A.spaced is the step with  *)
(* which init built the history last, and A.runs lists, for each run of    *)
(* tryStep in the call of Next, s.h and A.spaced at the time.  A.base is   *)
(* the state (lasttime, steps[4].Value, h) from which init built the       *)
(* history last, and A.seen counts the points Next has returned since.     *)
(***************************************************************************)
adaptivePCStepper_out(A, ok, st, err, flt) ==
    [ok |-> ok, err |-> err, fault |-> flt,
     A |-> [A EXCEPT !.steps = st,
                     !.runs = Append(@, [h |-> A.h, spaced |-> A.spaced])]]

adaptivePCStepper_tryStep(s, A) ==
    IF A.steps[1].Value = Nil
    THEN adaptivePCStepper_out(A, FALSE, A.steps, 0, "panic") ELSE
    With(Derivative(s.f, A.t, A.steps[1].Value), LAMBDA d1 :
    With([A.steps EXCEPT ![1].Deriv = DerivOrNil(d1)], LAMBDA st1 :
      IF ~d1.ok THEN adaptivePCStepper_out(A, FALSE, st1, 0, "none") ELSE
    With(adamsBashfordStep(st1, 1, A.h), LAMBDA p :
      IF p.panic THEN adaptivePCStepper_out(A, FALSE, st1, 0, "panic") ELSE
    With(Derivative(s.f, A.t + A.h, p.v), LAMBDA d0 :
    With([st1 EXCEPT ![0].Value = p.v, ![0].Deriv = DerivOrNil(d0)],
         LAMBDA st3 :
      IF ~d0.ok THEN adaptivePCStepper_out(A, FALSE, st3, 0, "none") ELSE
    With(adamsMoultonStep(st3, 0, A.h), LAMBDA c :
      IF c.panic THEN adaptivePCStepper_out(A, FALSE, st3, 0, "panic")
      ELSE adaptivePCStepper_out(A, TRUE,
               [st3 EXCEPT ![0].Value = c.v, ![0].Deriv = Nil],
               Quot(Abs(c.v - p.v) * 19, 270), "none")))))))

adaptivePCStepper_adjustStep(s, h, err) ==
    ClampStep(FMul(h, ClampQ(IF err = 0 THEN QMax
                             ELSE PowInv(Adjust(h, s.tol, err), 4))),
              s.hmax)

\* the three RK4 steps of init from (lasttime, steps[4].Value): i = 4, 3, 2
RECURSIVE adaptivePCStepper_boot(_, _, _, _, _)
adaptivePCStepper_boot(s, A, i, t, x) ==
    IF i = 1 THEN [ok |-> TRUE, A |-> [A EXCEPT !.t = t, !.spaced = A.h]] ELSE
    With(RK4Step(s.f, t, x, A.h), LAMBDA r :
      IF ~r.ok
      THEN [ok |-> FALSE, A |-> [A EXCEPT !.steps[i].Deriv = Nil]]
      ELSE adaptivePCStepper_boot(s,
               [A EXCEPT !.steps[i].Deriv = r.k1,
                         !.steps[i - 1].Value = r.x],
               i - 1, t + A.h, r.x))

RECURSIVE adaptivePCStepper_init(_, _, _)
adaptivePCStepper_init(s, A, fuel) ==
    IF ~(Abs(A.h) >= s.hmin) THEN [ok |-> FALSE, fault |-> "none", A |-> A]
    ELSE IF fuel = 0 THEN [ok |-> FALSE, fault |-> "hang", A |-> A]
    ELSE
    With(adaptivePCStepper_boot(s, A, 4, A.t, A.steps[4].Value), LAMBDA b :
      IF ~b.ok THEN [ok |-> FALSE, fault |-> "none", A |-> b.A] ELSE
    With(adaptivePCStepper_tryStep(s, b.A), LAMBDA r :
      IF r.fault # "none" THEN [ok |-> FALSE, fault |-> r.fault, A |-> r.A] ELSE
    With([r.A EXCEPT !.t = r.A.t + r.A.h], LAMBDA A1 :
    With([A1 EXCEPT !.t = A1.t - 4 * A1.h], LAMBDA back :
      IF ~r.ok THEN [ok |-> FALSE, fault |-> "none", A |-> back]
      ELSE IF r.err > FMul(s.tol, A1.h)
      THEN adaptivePCStepper_init(s,
               [back EXCEPT !.h = adaptivePCStepper_adjustStep(s, back.h, r.err)],
               fuel - 1)
      ELSE [ok |-> TRUE, fault |-> "none",
            A |-> [A1 EXCEPT !.pos = 4, !.seen = 0,
                             !.base = [t |-> A.t, x |-> A.steps[4].Value,
                                       h |-> A.h]]]))))

\* (mutant) the history is not shifted after init
RECURSIVE adaptivePCStepper_tryInit_noshift(_, _, _)
adaptivePCStepper_tryInit_noshift(s, A, fuel) ==
    IF ~(Abs(A.h) >= s.hmin) THEN [ok |-> FALSE, fault |-> "none", A |-> A]
    ELSE IF fuel = 0 THEN [ok |-> FALSE, fault |-> "hang", A |-> A]
    ELSE
    With(adaptivePCStepper_init(s, A, MaxTrials), LAMBDA r :
      IF r.fault # "none" \/ r.ok THEN r
      ELSE adaptivePCStepper_tryInit_noshift(s,
               [r.A EXCEPT !.h = Quot(r.A.h, 2),
                           !.steps = [i \in 0..4 |->
                               IF i < 4 THEN [Value |-> Nil, Deriv |-> Nil]
                               ELSE [Value |-> r.A.steps[4].Value,
                                     Deriv |-> Nil]]],
               fuel - 1))

RECURSIVE adaptivePCStepper_tryInit(_, _, _)
adaptivePCStepper_tryInit(s, A, fuel) ==
    IF ~(Abs(A.h) >= s.hmin) THEN [ok |-> FALSE, fault |-> "none", A |-> A]
    ELSE IF fuel = 0 THEN [ok |-> FALSE, fault |-> "hang", A |-> A]
    ELSE
    With(adaptivePCStepper_init(s, A, MaxTrials), LAMBDA r :
      IF r.fault # "none" THEN r
      ELSE IF r.ok
      THEN [ok |-> TRUE, fault |-> "none",
            A |-> [r.A EXCEPT !.steps = Shift(r.A.steps, 5)]]
      ELSE adaptivePCStepper_tryInit(s,
               [r.A EXCEPT !.h = Quot(r.A.h, 2),
                           !.steps = [i \in 0..4 |->
                               IF i < 4 THEN [Value |-> Nil, Deriv |-> Nil]
                               ELSE [Value |-> r.A.steps[4].Value,
                                     Deriv |-> Nil]]],
               fuel - 1))

\* the loop `for s.h >= s.hmin` of Next: [ok, fault, A, pt]
RECURSIVE adaptivePCStepper_loop(_, _, _)
adaptivePCStepper_loop(s, A, fuel) ==
    LET none == [Time |-> A.t, Value |-> Nil] IN
    IF ~(A.h >= s.hmin) THEN [ok |-> FALSE, fault |-> "none", A |-> A, pt |-> none]
    ELSE IF fuel = 0 THEN [ok |-> FALSE, fault |-> "hang", A |-> A, pt |-> none]
    ELSE IF A.pos > 0
    THEN [ok |-> TRUE, fault |-> "none",
          A |-> [A EXCEPT !.pos = A.pos - 1, !.seen = A.seen + 1],
          pt |-> [Time |-> A.t - A.h * (A.pos - 1), Value |-> A.steps[A.pos].Value]]
    ELSE
    With(adaptivePCStepper_tryStep(s, A), LAMBDA r :
      IF r.fault # "none"
      THEN [ok |-> FALSE, fault |-> r.fault, A |-> r.A, pt |-> none]
      ELSE IF ~r.ok
      THEN adaptivePCStepper_loop(s, [r.A EXCEPT !.h = Quot(A.h, 2)], fuel - 1)
      ELSE
    With(FMul(s.tol, A.h), LAMBDA tol :
    With(adaptivePCStepper_adjustStep(s, A.h, r.err), LAMBDA nh :
      IF r.err > tol
      THEN With(adaptivePCStepper_tryInit(s,
                    [r.A EXCEPT !.steps[4] = r.A.steps[1], !.h = nh],
                    MaxTrials), LAMBDA i :
             IF i.fault # "none" \/ ~i.ok
             THEN [ok |-> FALSE, fault |-> i.fault, A |-> i.A, pt |-> none]
             ELSE adaptivePCStepper_loop(s, i.A, fuel - 1))
      ELSE
    With([r.A EXCEPT !.t = A.t + A.h, !.steps = Shift(r.A.steps, 5),
                     !.seen = A.seen + 1],
         LAMBDA Aacc :
    With([Time |-> Aacc.t, Value |-> Aacc.steps[1].Value], LAMBDA pt :
      IF 10 * r.err < tol
      THEN [ok |-> TRUE, fault |-> "none", pt |-> pt,
            A |-> [Aacc EXCEPT !.steps[4] = Aacc.steps[1], !.h = nh,
                               !.pos = 5]]
      ELSE [ok |-> TRUE, fault |-> "none", A |-> Aacc, pt |-> pt])))))

adaptivePCStepper_Next(s, m) ==
    With([steps |-> s.steps, t |-> s.t, h |-> s.h, pos |-> s.init,
          spaced |-> s.spaced, runs |-> <<>>, base |-> s.base,
          seen |-> s.seen], LAMBDA A0 :
    With(IF A0.pos = 5 THEN adaptivePCStepper_tryInit(s, A0, MaxTrials)
         ELSE [ok |-> TRUE, fault |-> "none", A |-> A0], LAMBDA i :
    With(IF i.ok /\ i.fault = "none"
         THEN adaptivePCStepper_loop(s, i.A, MaxTrials)
         ELSE [ok |-> FALSE, fault |-> i.fault, A |-> i.A,
               pt |-> [Time |-> i.A.t, Value |-> Nil]], LAMBDA r :
      [s |-> [s EXCEPT !.steps = r.A.steps, !.t = r.A.t, !.h = r.A.h,
                       !.init = r.A.pos, !.spaced = r.A.spaced,
                       !.runs = r.A.runs, !.base = r.A.base,
                       !.seen = r.A.seen],
       m |-> m, ok |-> r.ok, fault |-> r.fault, pt |-> r.pt])))

(***************************************************************************)
(* part_006: NewtonRoot1D; part_007: implicitEulerStepper, trapezium       *)
(*                                                                         *)
(* The implicit equation of a step is fn(w) = w - value - c*f(time, w)     *)
(* with c = h (implicit Euler) or h/2 (trapezium); dfn(w) = 1 - c*dfy,     *)
(* where dfy is the derivative of f in x, f.a for the functions here.      *)
(***************************************************************************)
\* [ok, hang, x].  A zero dfprev makes off infinite or NaN, and every
\* later iterate NaN: the loop never ends.
RECURSIVE NewtonRoot1D(_, _, _, _, _, _, _)
NewtonRoot1D(prev, tolerance, f, time, value, c, fuel) ==
    With(Derivative(f, time, prev), LAMBDA d :
      IF ~d.ok THEN [ok |-> FALSE, hang |-> FALSE, x |-> 0] ELSE
    With(Scale - FMul(c, f.a), LAMBDA dfprev :
      IF dfprev = 0 \/ fuel = 0 THEN [ok |-> FALSE, hang |-> TRUE, x |-> 0] ELSE
    With(FDiv(prev - value - FMul(c, d.v), dfprev), LAMBDA off :
      IF Abs(off) <= tolerance
      THEN [ok |-> TRUE, hang |-> FALSE, x |-> prev - off]
      ELSE NewtonRoot1D(prev - off, tolerance, f, time, value, c, fuel - 1))))

\* the time of the equation and of the new point use s.step, not h
implicitEulerStepper_NextStep(s, m, h) ==
    With(NewtonRoot1D(m[s.ref], s.tol, s.f, s.t + s.h, m[s.ref], h, MaxTrials),
         LAMBDA r :
      IF r.hang THEN Fault(s, m, "hang")
      ELSE IF ~r.ok THEN Ret(s, m, FALSE)
      ELSE Ret([s EXCEPT !.t = s.t + s.h], [m EXCEPT ![s.ref] = r.x], TRUE))

implicitEulerStepper_Next(s, m) == implicitEulerStepper_NextStep(s, m, s.h)

trapeziumStepper_NextStep(s, m, h) ==
    With(Derivative(s.f, s.t, m[s.ref]), LAMBDA pv :
      IF ~pv.ok THEN Ret(s, m, FALSE) ELSE
    With(NewtonRoot1D(m[s.ref], s.tol, s.f, s.t + s.h,
                      m[s.ref] + FMul(Quot(h, 2), pv.v), Quot(h, 2), MaxTrials),
         LAMBDA r :
      IF r.hang THEN Fault(s, m, "hang")
      ELSE IF ~r.ok THEN Ret(s, m, FALSE)
      ELSE Ret([s EXCEPT !.t = s.t + s.h], [m EXCEPT ![s.ref] = r.x], TRUE)))

trapeziumStepper_Next(s, m) == trapeziumStepper_NextStep(s, m, s.h)

(***************************************************************************)
(* Methods: Forward and Backward of every Method.  A method is             *)
(* [kind, method, Step, Hmin, Hmax, Tolerance, Order].                     *)
(***************************************************************************)
\* kinds whose steppers are ConfigurableSteppers
Configurable == {"fixed", "adamsBashford", "pc", "implicitEuler", "trapezium"}

\* the stepper of method c for the IVP i, stepping by `step`, with its
\* private slice at loc: [s, m]
withStep(c, i, m, step, loc) ==
    LET cl == IVPClone(i, m, loc)
        \* rkFehlberg, implicit and trapezium clone ivp.Start; the
        \* adaptive predictor-corrector copies the value into steps[4]
        start == IF c.kind \in {"adamsBashford", "pc", "adaptivePC"}
                 THEN (IF c.kind = "adamsBashford"
                       THEN [NoSteps EXCEPT ![3].Value = m[i.ref]]
                       ELSE [NoSteps EXCEPT ![4].Value = m[i.ref]])
                 ELSE NoSteps
    IN  [s |-> [kind |-> c.kind, method |-> c.method, f |-> i.f,
                t |-> cl.ivp.Time, ref |-> cl.ivp.ref, own |-> loc,
                h |-> step, hmin |-> c.Hmin, hmax |-> c.Hmax,
                tol |-> c.Tolerance, order |-> c.Order,
                init |-> IF c.kind = "adaptivePC" THEN 5
                         ELSE IF c.kind \in {"adamsBashford", "pc"} THEN 3
                         ELSE 0,
                steps |-> start, trials |-> <<>>, rkf |-> <<>>,
                spaced |-> Nil, runs |-> <<>>, seen |-> 0,
                base |-> [t |-> Nil, x |-> Nil, h |-> Nil]],
         m |-> cl.m]

Forward(c, i, m, loc) == withStep(c, i, m, c.Step, loc)

Backward(c, i, m, loc) == withStep(c, i, m, -c.Step, loc)

\* Stepper.Next
StepperNext(s, m) ==
    CASE s.kind = "fixed" -> fixedStepper_Next(s, m)
      [] s.kind = "adaptive" -> adaptiveStepper_Next(s, m)
      [] s.kind = "rkFehlberg" -> rkFehlbergStepper_Next(s, m)
      [] s.kind = "adamsBashford" -> adamsBashfordStepper_Next(s, m)
      [] s.kind = "pc" -> pcStepper_Next(s, m)
      [] s.kind = "adaptivePC" -> adaptivePCStepper_Next(s, m)
      [] s.kind = "implicitEuler" -> implicitEulerStepper_Next(s, m)
      [] s.kind = "trapezium" -> trapeziumStepper_Next(s, m)

\* ConfigurableStepper.NextStep
StepperNextStep(s, m, h) ==
    CASE s.kind = "fixed" -> fixedStepper_NextStep(s, m, h)
      [] s.kind = "adamsBashford" -> adamsBashfordStepper_NextStep(s, m, h)
      [] s.kind = "pc" -> pcStepper_NextStep(s, m, h)
      [] s.kind = "implicitEuler" -> implicitEulerStepper_NextStep(s, m, h)
      [] s.kind = "trapezium" -> trapeziumStepper_NextStep(s, m, h)

(***************************************************************************)
(* arenstorf.go (interpolation part): LinearInterpolator.  Points are      *)
(* [Time, Value] by content from here on.  Two points with the same time   *)
(* make ratio NaN, and so the result: Nil stands for it.                   *)
(***************************************************************************)
LinearInterpolator_FindValue(p1, p2, t) ==
    IF p2.Time = p1.Time THEN Nil
    ELSE LET ratio == FDiv(t - p1.Time, p2.Time - p1.Time)
         IN  FMul(p1.Value, Scale - ratio) + FMul(p2.Value, ratio)

(***************************************************************************)
(* event.go: Event, FindPoint, requiredActions, differentSign              *)
(*                                                                         *)
(* An event is [kind, z, up, Tolerance, cont]: Cross(p) is                 *)
(* up * (p.Time - z) or up * (p.Value - z), and Action returns cont.       *)
(***************************************************************************)
Cross(e, p) ==
    IF e.kind = "time" THEN e.up * (p.Time - e.z) ELSE e.up * (p.Value - e.z)

Action(e, p) == e.cont

differentSign(f1, f2) == (f1 <= 0 /\ f2 >= 0) \/ (f1 >= 0 /\ f2 <= 0)

\* the point of the interpolated segment p1..p2 at time t
At(p1, p2, t) == [Time |-> t, Value |-> LinearInterpolator_FindValue(p1, p2, t)]

\* the loop of FindPoint; min and max are the times of the points min and
\* max, n counts the iterations and br records whether the interval has
\* held a sign change of Cross at every iteration so far
RECURSIVE FindPoint_loop(_, _, _, _, _, _, _, _)
FindPoint_loop(e, p1, p2, min, max, downwards, n, br) ==
    With(At(p1, p2, Quot(min + max, 2)), LAMBDA mid :
    With(Cross(e, mid), LAMBDA value :
    With(br /\ differentSign(Cross(e, At(p1, p2, min)),
                             Cross(e, At(p1, p2, max))), LAMBDA inside :
      IF Abs(value) < e.Tolerance
      THEN [fault |-> "none", pt |-> mid, iters |-> n, bracketed |-> inside]
      ELSE IF n >= MaxBisect
      THEN [fault |-> "hang", pt |-> mid, iters |-> n, bracketed |-> inside]
      ELSE IF downwards = (value > 0)
      THEN FindPoint_loop(e, p1, p2, mid.Time, max, downwards, n + 1, inside)
      ELSE FindPoint_loop(e, p1, p2, min, mid.Time, downwards, n + 1, inside))))

FindPoint(e, p1, p2) ==
    LET min == IF p1.Time < p2.Time THEN p1.Time ELSE p2.Time
        max == IF p1.Time < p2.Time THEN p2.Time ELSE p1.Time
    IN  FindPoint_loop(e, p1, p2, min, max, Cross(e, p1) > 0, 0, TRUE)

\* sort.Sort(actions): fewer than 12 elements are sorted by insertion,
\* which keeps elements with equal times in their order
RECURSIVE Insert(_, _)
Insert(sorted, a) ==
    IF sorted = <<>> THEN <<a>>
    ELSE LET last == sorted[Len(sorted)]
         IN  IF a.point.Time < last.point.Time
             THEN Append(Insert(SubSeq(sorted, 1, Len(sorted) - 1), a), last)
             ELSE Append(sorted, a)

RECURSIVE SortActions(_)
SortActions(actions) ==
    IF actions = <<>> THEN <<>>
    ELSE Insert(SortActions(SubSeq(actions, 1, Len(actions) - 1)),
                actions[Len(actions)])

(***************************************************************************)
(* part_000: StepUntil.  A frame is one activation of StepUntil:           *)
(*   s, m          the stepper it drives and the memory                    *)
(*   evs, cbNil    the events; whether callback is nil                     *)
(*   prev, vs      the loop's variables                                    *)
(*   pc            "loop", "returned", "panic" or "hang"; why says where   *)
(*   index, ok     the values returned                                     *)
(* and what an observer of the run has seen:                               *)
(*   nexts, nextOk the calls of s.Next() and the result of the last one    *)
(*   acts          the Actions invoked, in order: [index, time, cont, step]*)
(*   cbs           the points callback was invoked with, in order          *)
(*   pts           the points s.Next() produced, in order                  *)
(*   fired         the required actions of the last step, as detected      *)
(***************************************************************************)
StepUntil_begin(s, m, init, cbNil, evs) ==
    [s |-> s, m |-> m, evs |-> evs, cbNil |-> cbNil, init |-> init,
     prev |-> init, vs |-> [i \in 1..Len(evs) |-> Cross(evs[i], init)],
     pc |-> "loop", why |-> "", index |-> 0, ok |-> FALSE,
     nexts |-> 0, nextOk |-> TRUE, acts |-> <<>>, cbs |-> <<>>,
     pts |-> <<>>, fired |-> <<>>]

\* the loop over the events: evs[i] is the event of index i - 1.
\* [fault, vs, actions]
RECURSIVE StepUntil_detect(_, _, _, _, _, _)
StepUntil_detect(evs, vs, prev, point, i, actions) ==
    IF i > Len(evs) THEN [fault |-> "none", vs |-> vs, actions |-> actions] ELSE
    With(Cross(evs[i], point), LAMBDA newVal :
      IF ~differentSign(vs[i], newVal)
      THEN StepUntil_detect(evs, [vs EXCEPT ![i] = newVal], prev, point, i + 1,
                            actions) ELSE
    With(FindPoint(evs[i], prev, point), LAMBDA found :
      IF found.fault # "none"
      THEN [fault |-> found.fault, vs |-> vs, actions |-> actions]
      ELSE StepUntil_detect(evs, [vs EXCEPT ![i] = newVal], prev, point, i + 1,
               Append(actions, [index |-> i - 1, point |-> found.pt]))))

\* for i := 0; i < size/2; i++ { actions[i], actions[size-i] = ... }
\* on the 0-based slice: the index size - i is out of range for i = 0
RECURSIVE StepUntil_reverse(_, _)
StepUntil_reverse(actions, i) ==
    LET size == Len(actions)
    IN  IF ~(i < size \div 2) THEN [panic |-> FALSE, actions |-> actions]
        ELSE IF size - i > size - 1 THEN [panic |-> TRUE, actions |-> actions]
        ELSE StepUntil_reverse(
                 [actions EXCEPT ![i + 1] = actions[size - i + 1],
                                 ![size - i + 1] = actions[i + 1]], i + 1)

\* (mutant) a veto is noticed only after every action has been invoked
RECURSIVE StepUntil_dispatch_late(_, _, _, _)
StepUntil_dispatch_late(evs, actions, i, done) ==
    IF i > Len(actions)
    THEN LET bad == {j \in 1..Len(done) : ~done[j].cont}
         IN  IF bad = {} THEN [veto |-> FALSE, index |-> 0, acts |-> done]
             ELSE [veto |-> TRUE,
                   index |-> done[CHOOSE j \in bad : \A k \in bad : j <= k].index,
                   acts |-> done]
    ELSE LET a == actions[i]
             c == Action(evs[a.index + 1], a.point)
         IN  StepUntil_dispatch_late(evs, actions, i + 1,
                 Append(done, [index |-> a.index, time |-> a.point.Time, cont |-> c]))

\* (mutant) the index returned is the position in the sorted actions
RECURSIVE StepUntil_dispatch_pos(_, _, _, _)
StepUntil_dispatch_pos(evs, actions, i, done) ==
    IF i > Len(actions) THEN [veto |-> FALSE, index |-> 0, acts |-> done]
    ELSE LET a == actions[i]
             c == Action(evs[a.index + 1], a.point)
             d1 == Append(done, [index |-> a.index, time |-> a.point.Time,
                                 cont |-> c])
         IN  IF ~c THEN [veto |-> TRUE, index |-> i - 1, acts |-> d1]
             ELSE StepUntil_dispatch_pos(evs, actions, i + 1, d1)

\* for _, a := range actions { if !evs[a.index].Action(&a.point) { return } }
\* [veto, index, acts]: acts are the Actions invoked
RECURSIVE StepUntil_dispatch(_, _, _, _)
StepUntil_dispatch(evs, actions, i, done) ==
    IF i > Len(actions) THEN [veto |-> FALSE, index |-> 0, acts |-> done]
    ELSE LET a == actions[i]
             c == Action(evs[a.index + 1], a.point)
             d1 == Append(done, [index |-> a.index, time |-> a.point.Time,
                                 cont |-> c])
         IN  IF ~c THEN [veto |-> TRUE, index |-> a.index, acts |-> d1]
             ELSE StepUntil_dispatch(evs, actions, i + 1, d1)

\* the Actions `done` invoked in iteration `step`, as StepUntil_begin logs them
StepUntil_logged(done, step) ==
    [j \in 1..Len(done) |->
        [index |-> done[j].index, time |-> done[j].time,
         cont |-> done[j].cont, step |-> step]]

\* one iteration of the loop of StepUntil
StepUntil_iter(F) ==
    With(StepperNext(F.s, F.m), LAMBDA r :
    With([F EXCEPT !.s = r.s, !.m = r.m, !.nexts = @ + 1,
                   !.nextOk = r.ok /\ r.fault = "none", !.fired = <<>>],
         LAMBDA F1 :
      IF r.fault # "none" THEN [F1 EXCEPT !.pc = r.fault, !.why = "Next"]
      ELSE IF ~r.ok
      THEN [F1 EXCEPT !.pc = "returned", !.why = "exhausted",
                      !.index = 0, !.ok = FALSE]
      ELSE
    With([F1 EXCEPT !.pts = Append(@, r.pt)], LAMBDA F2 :
    With(StepUntil_detect(F.evs, F.vs, F.prev, r.pt, 1, <<>>), LAMBDA det :
      IF det.fault # "none"
      THEN [F2 EXCEPT !.pc = det.fault, !.why = "FindPoint"] ELSE
    With([F2 EXCEPT !.vs = det.vs, !.fired = det.actions], LAMBDA F3 :
    With(SortActions(det.actions), LAMBDA sorted :
    With(IF r.pt.Time < F.prev.Time THEN StepUntil_reverse(sorted, 0)
         ELSE [panic |-> FALSE, actions |-> sorted], LAMBDA rev :
      IF rev.panic THEN [F3 EXCEPT !.pc = "panic", !.why = "reverse"] ELSE
    With(StepUntil_dispatch(F.evs, rev.actions, 1, <<>>), LAMBDA dis :
    With([F3 EXCEPT !.acts = @ \o StepUntil_logged(dis.acts, F1.nexts)],
         LAMBDA F4 :
      IF dis.veto
      THEN [F4 EXCEPT !.pc = "returned", !.why = "veto",
                      !.index = dis.index, !.ok = TRUE]
      ELSE IF F.cbNil THEN [F4 EXCEPT !.pc = "panic", !.why = "callback"]
      ELSE [F4 EXCEPT !.cbs = Append(@, r.pt), !.prev = r.pt])))))))))

(***************************************************************************)
(* arenstorf.go (cache part): CacheSolver.  A cache is                     *)
(*   forward, backward   the stored points, by content                     *)
(*   forNil, backNil     whether forStep / backStep is nil                 *)
(*   evs                 the events                                        *)
(* and a world W is [c, fs, bs, m, log]: the cache, the steppers forStep   *)
(* and backStep point to, the memory, and what an observer of the          *)
(* operation has seen:                                                     *)
(*   fcalls, bcalls      the calls made to forStep / backStep              *)
(*   fexh, bexh          whether forStep / backStep has returned ok=false  *)
(*   fpulled, bpulled    the point a stepper returned last                 *)
(*   femitted, bemitted  the points a stepper has returned, in order       *)
(*   cmps                for every point pulled by Get: the crossing       *)
(*                       values it was compared against, the point they    *)
(*                       were paired with and the point itself             *)
(*   acts                the Actions invoked, in order                     *)
(*   pts, why            the points the stepper gave to StepUntil, and     *)
(*                       why StepUntil ended                               *)
(* An operation gives [W, ok, x, fault].                                   *)
(***************************************************************************)
CacheSolve(F, B, m, start, evs) ==
    [c |-> [forward |-> <<start>>, backward |-> <<>>, forNil |-> FALSE,
            backNil |-> FALSE, evs |-> evs],
     fs |-> F, bs |-> B, m |-> m]

CacheSolver_Start(c) ==
    IF Len(c.backward) > 0 THEN c.backward[Len(c.backward)].Time
    ELSE c.forward[1].Time

CacheSolver_End(c) == c.forward[Len(c.forward)].Time

CacheOut(W, ok, x, fault) == [W |-> W, ok |-> ok, x |-> x, fault |-> fault]

\* the world after forStep (backStep) returned r
CachePulledForward(W, r) ==
    [W EXCEPT !.fs = r.s, !.m = r.m,
              !.log.fcalls = @ + 1,
              !.log.fexh = @ \/ (r.fault = "none" /\ ~r.ok),
              !.log.fpulled = IF r.fault = "none" /\ r.ok THEN r.pt ELSE @,
              !.log.femitted = IF r.fault = "none" /\ r.ok
                               THEN Append(@, r.pt) ELSE @]

CachePulledBackward(W, r) ==
    [W EXCEPT !.bs = r.s, !.m = r.m,
              !.log.bcalls = @ + 1,
              !.log.bexh = @ \/ (r.fault = "none" /\ ~r.ok),
              !.log.bpulled = IF r.fault = "none" /\ r.ok THEN r.pt ELSE @,
              !.log.bemitted = IF r.fault = "none" /\ r.ok
                               THEN Append(@, r.pt) ELSE @]

\* the world when Get compares the point pulled in direction dir with the
\* values vs taken at the point prev
CacheCompared(W, dir, vs, prev, point) ==
    [W EXCEPT !.log.cmps = Append(@, [dir |-> dir,
                                      vals |-> [i \in DOMAIN vs |-> vs[i]],
                                      cur |-> prev, pt |-> point])]

\* [fault, vals, actions]
CacheSolver_getActions(c, current, next, vals) ==
    With(StepUntil_detect(c.evs, vals, current, next, 1, <<>>), LAMBDA det :
      [fault |-> det.fault, vals |-> det.vs,
       actions |-> SortActions(det.actions)])

\* for i := len(actions) - 1; i >= 0; i-- { if !Action { return false } }
\* [veto, acts]: acts are the Actions invoked
RECURSIVE CacheSolver_vetoDown(_, _, _, _)
CacheSolver_vetoDown(evs, actions, i, done) ==
    IF i < 1 THEN [veto |-> FALSE, acts |-> done]
    ELSE LET a == actions[i]
             c == Action(evs[a.index + 1], a.point)
             d1 == Append(done, [index |-> a.index, time |-> a.point.Time,
                                 cont |-> c])
         IN  IF ~c THEN [veto |-> TRUE, acts |-> d1]
             ELSE CacheSolver_vetoDown(evs, actions, i - 1, d1)

\* for i := 0; i < len(actions); i++ { if !Action { return false } }
RECURSIVE CacheSolver_vetoUp(_, _, _, _)
CacheSolver_vetoUp(evs, actions, i, done) ==
    IF i > Len(actions) THEN [veto |-> FALSE, acts |-> done]
    ELSE LET a == actions[i]
             c == Action(evs[a.index + 1], a.point)
             d1 == Append(done, [index |-> a.index, time |-> a.point.Time,
                                 cont |-> c])
         IN  IF ~c THEN [veto |-> TRUE, acts |-> d1]
             ELSE CacheSolver_vetoUp(evs, actions, i + 1, d1)

\* the world after the Actions `done` were invoked for the last point pulled
CacheInvoked(W, done) ==
    [W EXCEPT !.log.acts = @ \o StepUntil_logged(done, Len(W.log.cmps))]

\* the loop of expandBackward: for t < current.Time { ... }
RECURSIVE CacheSolver_loopBackward(_, _, _, _, _)
CacheSolver_loopBackward(W, t, current, vals, fuel) ==
    IF ~(t < current.Time) THEN CacheOut(W, TRUE, Nil, "none")
    ELSE IF fuel = 0 THEN CacheOut(W, FALSE, Nil, "hang")
    ELSE
    With(StepperNext(W.bs, W.m), LAMBDA r :
    With(CachePulledBackward(W, r), LAMBDA W1 :
      IF r.fault # "none" THEN CacheOut(W1, FALSE, Nil, r.fault)
      ELSE IF ~r.ok
      THEN CacheOut([W1 EXCEPT !.c.backNil = TRUE], FALSE, Nil, "none")
      ELSE
    With(CacheCompared(W1, "bwd", vals, current, r.pt), LAMBDA W2 :
    With(CacheSolver_getActions(W.c, current, r.pt, vals), LAMBDA ga :
      IF ga.fault # "none" THEN CacheOut(W2, FALSE, Nil, ga.fault) ELSE
    With(CacheSolver_vetoDown(W.c.evs, ga.actions, Len(ga.actions), <<>>),
         LAMBDA vt :
    With(CacheInvoked(W2, vt.acts), LAMBDA W3 :
      IF vt.veto THEN CacheOut(W3, FALSE, Nil, "none")
      ELSE CacheSolver_loopBackward(
               [W3 EXCEPT !.c.backward = Append(@, r.pt)],
               t, r.pt, ga.vals, fuel - 1)))))))

CacheSolver_expandBackward(W, t) ==
    LET c == W.c
        current == IF Len(c.backward) = 0 THEN c.forward[1]
                   ELSE c.backward[Len(c.backward)]
        vals == [i \in 1..Len(c.evs) |-> Cross(c.evs[i], current)]
    IN  IF c.backNil THEN CacheOut(W, FALSE, Nil, "none")
        ELSE CacheSolver_loopBackward(W, t, current, vals, MaxTrials)

\* the loop of expandForward: for t < current.Time { ... }
RECURSIVE CacheSolver_loopForward(_, _, _, _, _)
CacheSolver_loopForward(W, t, current, vals, fuel) ==
    IF ~(t < current.Time) THEN CacheOut(W, TRUE, Nil, "none")
    ELSE IF fuel = 0 THEN CacheOut(W, FALSE, Nil, "hang")
    ELSE
    With(StepperNext(W.fs, W.m), LAMBDA r :
    With(CachePulledForward(W, r), LAMBDA W1 :
      IF r.fault # "none" THEN CacheOut(W1, FALSE, Nil, r.fault)
      ELSE IF ~r.ok
      THEN CacheOut([W1 EXCEPT !.c.forNil = TRUE], FALSE, Nil, "none")
      ELSE
    With(CacheCompared(W1, "fwd", vals, current, r.pt), LAMBDA W2 :
    With(CacheSolver_getActions(W.c, current, r.pt, vals), LAMBDA ga :
      IF ga.fault # "none" THEN CacheOut(W2, FALSE, Nil, ga.fault) ELSE
    With(CacheSolver_vetoUp(W.c.evs, ga.actions, 1, <<>>), LAMBDA vt :
    With(CacheInvoked(W2, vt.acts), LAMBDA W3 :
      IF vt.veto THEN CacheOut(W3, FALSE, Nil, "none")
      ELSE CacheSolver_loopForward(
               [W3 EXCEPT !.c.forward = Append(@, r.pt)],
               t, r.pt, ga.vals, fuel - 1)))))))

CacheSolver_expandForward(W, t) ==
    LET c == W.c
        current == c.forward[Len(c.forward)]
        vals == [i \in 1..Len(c.evs) |-> Cross(c.evs[i], current)]
    IN  IF c.forNil THEN CacheOut(W, FALSE, Nil, "none")
        ELSE CacheSolver_loopForward(W, t, current, vals, MaxTrials)

\* i := 1; for t > c.forward[i].Time { i++ }; FindValue(forward[i-1],
\* forward[i], t).  i is the index of the program (from 0).
RECURSIVE CacheSolver_lookForward(_, _, _)
CacheSolver_lookForward(W, t, i) ==
    LET fw == W.c.forward
    IN  IF i >= Len(fw) THEN CacheOut(W, FALSE, Nil, "panic")
        ELSE IF t > fw[i + 1].Time THEN CacheSolver_lookForward(W, t, i + 1)
        ELSE CacheOut(W, TRUE,
                      LinearInterpolator_FindValue(fw[i], fw[i + 1], t), "none")

\* i := 0; for t > c.backward[i].Time { i++ }; ...
RECURSIVE CacheSolver_lookBackward(_, _, _)
CacheSolver_lookBackward(W, t, i) ==
    LET bw == W.c.backward
    IN  IF i >= Len(bw) THEN CacheOut(W, FALSE, Nil, "panic")
        ELSE IF t > bw[i + 1].Time THEN CacheSolver_lookBackward(W, t, i + 1)
        ELSE IF i = 0
        THEN CacheOut(W, TRUE,
                 LinearInterpolator_FindValue(bw[1], W.c.forward[1], t), "none")
        ELSE CacheOut(W, TRUE,
                 LinearInterpolator_FindValue(bw[i + 1], bw[i], t), "none")

CacheSolver_Get(W, t) ==
    With(IF t < CacheSolver_Start(W.c) THEN CacheSolver_expandBackward(W, t)
         ELSE CacheOut(W, TRUE, Nil, "none"), LAMBDA eb :
      IF eb.fault # "none" \/ ~eb.ok THEN eb ELSE
    With(IF t > CacheSolver_End(eb.W.c)
         THEN CacheSolver_expandForward(eb.W, t)
         ELSE CacheOut(eb.W, TRUE, Nil, "none"), LAMBDA ef :
      IF ef.fault # "none" \/ ~ef.ok THEN ef
      ELSE IF t >= ef.W.c.forward[1].Time
      THEN CacheSolver_lookForward(ef.W, t, 1)
      ELSE CacheSolver_lookBackward(ef.W, t, 0)))

CacheSolver_StepBackward(W, h) ==
    IF ~W.c.backNil /\ W.bs.kind \in Configurable
    THEN With(StepperNextStep(W.bs, W.m, -h), LAMBDA r :
         With(CachePulledBackward(W, r), LAMBDA W1 :
           IF r.fault # "none" THEN CacheOut(W1, FALSE, Nil, r.fault)
           ELSE IF ~r.ok THEN CacheOut(W1, FALSE, Nil, "none")
           ELSE CacheOut(IF h > 0
                         THEN [W1 EXCEPT !.c.backward = Append(@, r.pt)]
                         ELSE W1,
                         TRUE, r.pt.Value, "none")))
    ELSE CacheSolver_Get(W, CacheSolver_Start(W.c) - h)

CacheSolver_StepForward(W, h) ==
    IF ~W.c.forNil /\ W.fs.kind \in Configurable
    THEN With(StepperNextStep(W.fs, W.m, h), LAMBDA r :
         With(CachePulledForward(W, r), LAMBDA W1 :
           IF r.fault # "none" THEN CacheOut(W1, FALSE, Nil, r.fault)
           ELSE IF ~r.ok THEN CacheOut(W1, FALSE, Nil, "none")
           ELSE CacheOut(IF h > 0
                         THEN [W1 EXCEPT !.c.forward = Append(@, r.pt)]
                         ELSE W1,
                         TRUE, r.pt.Value, "none")))
    ELSE CacheSolver_Get(W, CacheSolver_End(W.c) + h)

\* StepUntil(s, init, c.interp, callback, c.evs...) run to its return
RECURSIVE StepUntil_run(_, _)
StepUntil_run(F, fuel) ==
    IF F.pc # "loop" THEN F
    ELSE IF fuel = 0 THEN [F EXCEPT !.pc = "hang", !.why = "loop"]
    ELSE StepUntil_run(StepUntil_iter(F), fuel - 1)

\* the callback of StepToBeginning and StepToEnd appends to the list, so
\* the list has grown by the points callback was invoked with; a nil
\* stepper makes s.Next() panic
CacheSolver_StepToBeginning(W) ==
    LET c == W.c
        init == IF Len(c.backward) > 0 THEN c.backward[Len(c.backward)]
                ELSE c.forward[1]
    IN  IF c.backNil THEN CacheOut(W, FALSE, Nil, "panic") ELSE
        With(StepUntil_run(StepUntil_begin(W.bs, W.m, init, FALSE, c.evs),
                           MaxTrials), LAMBDA F :
          CacheOut([W EXCEPT !.bs = F.s, !.m = F.m,
                             !.c.backward = @ \o F.cbs,
                             !.log.bcalls = @ + F.nexts,
                             !.log.bexh = @ \/ F.why = "exhausted",
                             !.log.bpulled = IF F.pts = <<>> THEN @
                                             ELSE F.pts[Len(F.pts)],
                             !.log.bemitted = @ \o F.pts,
                             !.log.acts = @ \o F.acts,
                             !.log.pts = F.pts, !.log.why = F.why],
                   F.pc = "returned", Nil,
                   IF F.pc = "returned" THEN "none" ELSE F.pc))

CacheSolver_StepToEnd(W) ==
    LET c == W.c
    IN  IF c.forNil THEN CacheOut(W, FALSE, Nil, "panic") ELSE
        With(StepUntil_run(StepUntil_begin(W.fs, W.m,
                               c.forward[Len(c.forward)], FALSE, c.evs),
                           MaxTrials), LAMBDA F :
          CacheOut([W EXCEPT !.fs = F.s, !.m = F.m,
                             !.c.forward = @ \o F.cbs,
                             !.log.fcalls = @ + F.nexts,
                             !.log.fexh = @ \/ F.why = "exhausted",
                             !.log.fpulled = IF F.pts = <<>> THEN @
                                             ELSE F.pts[Len(F.pts)],
                             !.log.femitted = @ \o F.pts,
                             !.log.acts = @ \o F.acts,
                             !.log.pts = F.pts, !.log.why = F.why],
                   F.pc = "returned", Nil,
                   IF F.pc = "returned" THEN "none" ELSE F.pc))

(***************************************************************************)
(* The problems and methods the steppers are made for                      *)
(***************************************************************************)
T0 == 0 * Scale
X0 == Scale                \* x(0) = 1
StepH == Scale \div 2      \* Step = 0.5
HminH == Scale \div 16
HmaxH == Scale
TolH == Scale \div 20      \* Tolerance = 0.05
NewtonTol == Scale \div 320

\* x' = 1 and x' = -x/2, on a wide and on a narrow time domain
Derivs ==
    { [a |-> a, b |-> IF a = 0 THEN Scale ELSE 0, lo |-> -hi, hi |-> hi,
       junk |-> "nil"] :
        a \in {0, -(Scale \div 2)}, hi \in {(7 * Scale) \div 4, 8 * Scale} }

\* the same functions, returning nil or a vector when they fail
JunkDerivs == { [f EXCEPT !.junk = j] : f \in Derivs, j \in Junk }

\* only modEulerStep reads what a failed evaluation returned
DerivsFor(c) == IF c.method = "modEuler" THEN JunkDerivs ELSE Derivs

Method(kind, inner, order) ==
    [kind |-> kind, method |-> inner, Step |-> StepH, Hmin |-> HminH,
     Hmax |-> HmaxH, Order |-> order,
     Tolerance |-> IF kind \in {"implicitEuler", "trapezium"} THEN NewtonTol
                   ELSE TolH]

Methods ==
    { Method("fixed", "euler", 1), Method("fixed", "modEuler", 2),
      Method("fixed", "rk4", 4),
      Method("adaptive", "euler", 1), Method("adaptive", "rk4", 4),
      Method("rkFehlberg", "none", 4), Method("adamsBashford", "none", 4),
      Method("pc", "none", 4), Method("adaptivePC", "none", 4),
      Method("implicitEuler", "none", 1), Method("trapezium", "none", 2) }

\* the deltas NextStep is called with, as magnitudes: the stepper's
\* direction gives the sign
Deltas == {Scale \div 4, Scale}

Dirs == {"fwd", "bwd"}
Sign(d) == IF d = "fwd" THEN 1 ELSE -1

(***************************************************************************)
(* Spec: a caller makes the Forward and the Backward stepper of one        *)
(* method for one IVP and calls Next and NextStep on them in any order.    *)
(* obs[d] is what the caller saw from stepper d: the number of calls, the  *)
(* result of the last call, the time of the last point returned before it, *)
(* whether an earlier call returned ok = FALSE, and whether only Next was  *)
(* used.                                                                   *)
(***************************************************************************)
Obs0 ==
    [calls |-> 0, ok |-> TRUE, fault |-> "none", time |-> T0, value |-> X0,
     prev |-> T0, dead |-> FALSE, wasDead |-> FALSE, onlyNext |-> TRUE,
     delta |-> Nil, good |-> 0, hist |-> <<[Time |-> T0, Value |-> X0]>>]

Init ==
    /\ meth \in Methods
    /\ \E f \in DerivsFor(meth) :
         LET i == [f |-> f, Time |-> T0, ref |-> "ivp"]
             m0 == [l \in Locs |-> IF l = "ivp" THEN X0 ELSE 0]
             F == Forward(meth, i, m0, "fwd")
             B == Backward(meth, i, F.m, "bwd")
         IN  /\ ivp = i
             /\ fwd = F.s
             /\ bwd = B.s
             /\ mem = B.m
    /\ obs = [d \in Dirs |-> Obs0]
    /\ su = Idle /\ fp = Idle /\ cache = Idle /\ dense = Idle /\ call = Idle

Stepper(d) == IF d = "fwd" THEN fwd ELSE bwd

\* nothing runs after a call that does not return
Running ==
    /\ \A d \in Dirs : obs[d].fault = "none"
    /\ obs["fwd"].calls + obs["bwd"].calls < MaxCalls

\* the four latest points of a sequence that is newest first
Latest(pts) == SubSeq(pts, 1, IF Len(pts) > 4 THEN 4 ELSE Len(pts))

Observe(d, r, next, h) ==
    /\ obs' = [obs EXCEPT ![d] =
                 [calls |-> @.calls + 1, ok |-> r.ok, fault |-> r.fault,
                  time |-> IF r.ok THEN r.pt.Time ELSE @.time,
                  value |-> IF r.ok THEN r.pt.Value ELSE @.value,
                  prev |-> @.time,
                  dead |-> @.dead \/ (r.fault = "none" /\ ~r.ok),
                  wasDead |-> @.dead,
                  onlyNext |-> @.onlyNext /\ next,
                  delta |-> h,
                  good |-> IF r.ok THEN @.good + 1 ELSE @.good,
                  hist |-> IF r.ok THEN Latest(<<r.pt>> \o @.hist) ELSE @.hist]]
    /\ mem' = r.m
    /\ IF d = "fwd" THEN fwd' = r.s /\ bwd' = bwd
                    ELSE bwd' = r.s /\ fwd' = fwd
    /\ UNCHANGED <<meth, ivp, su, fp, cache, dense, call>>

CallNext(d) ==
    /\ Running
    /\ Observe(d, StepperNext(Stepper(d), mem), TRUE, Nil)

CallNextStep(d, k) ==
    /\ Running
    /\ meth.kind \in Configurable
    /\ Observe(d, StepperNextStep(Stepper(d), mem, Sign(d) * k), FALSE,
               Sign(d) * k)

Next ==
    \/ \E d \in Dirs : CallNext(d)
    \/ \E d \in Dirs, k \in Deltas : CallNextStep(d, k)

Spec == Init /\ [][Next]_vars

(***************************************************************************)
(* Claims about steppers (Spec)                                            *)
(***************************************************************************)

\* C1: once a call on a stepper has returned ok = FALSE, every later call
\* on it that returns, Next or NextStep with any delta, returns ok = FALSE.
C1_ExhaustionPermanent ==
    \A d \in Dirs :
        (obs[d].wasDead /\ obs[d].fault = "none") => ~obs[d].ok

\* C2: driven only through Next, every point a Forward stepper returns is
\* strictly later than the point returned before it (the start time for
\* the first), and strictly earlier for a Backward stepper.
C2_TimesMonotone ==
    \A d \in Dirs :
        (obs[d].onlyNext /\ obs[d].calls > 0 /\ obs[d].ok
            /\ obs[d].fault = "none")
        => IF d = "fwd" THEN obs[d].time > obs[d].prev
                        ELSE obs[d].time < obs[d].prev

C2_Witness ==
    \A d \in Dirs :
        obs[d].onlyNext /\ obs[d].calls >= 2 /\ obs[d].ok
            /\ obs[d].time # obs[d].prev

\* the first trial of a Backward adaptive stepper, of size -Step: every
\* derivative evaluation is inside the domain and the error estimate is
\* within Tolerance * |h|
FirstTrialFine ==
    LET h == -meth.Step
        s0 == Backward(meth, ivp, mem, "bwd").s
        x0 == mem[ivp.ref]
        g == adaptiveStepper_getSteps(s0,
                 [t |-> ivp.Time, step |-> h, cur |-> "S", S |-> x0,
                  F |-> 0, H |-> 0])
        r == rkFehlberg_trial(s0, x0, h)
    IN  /\ meth.Step >= meth.Hmin /\ meth.Hmin > 0
        /\ \/ /\ meth.kind = "adaptive"
              /\ g.ok
              /\ Quot(Abs(g.L.F - g.L.H) * Pow2(meth.Order), Pow2(meth.Order) - 1)
                    <= FMul(meth.Tolerance, Abs(h))
           \/ /\ meth.kind = "rkFehlberg"
              /\ r.ok
              /\ r.err <= FMul(meth.Tolerance, Abs(h))

\* C3: the Backward stepper of an adaptive method whose first trial step
\* is inside the domain and within tolerance returns, from its first Next,
\* ok = TRUE and a point earlier than the start.
C3_BackwardAdvances ==
    (obs["bwd"].calls = 1 /\ obs["fwd"].calls = 0 /\ FirstTrialFine)
    => (obs["bwd"].ok /\ obs["bwd"].time < ivp.Time)

\* what stepper d is: its fields and the content of the slice it holds
StateOf(d) == <<Stepper(d), mem[Stepper(d).ref]>>

\* C4: a call on one stepper leaves the other stepper (time, value, step,
\* history) and the caller's ivp.Start (time and value) unchanged.
C4_NoSharedState ==
    [][ /\ ivp' = ivp
        /\ mem'[ivp.ref] = mem[ivp.ref]
        /\ \A d \in Dirs :
              obs'[d].calls = obs[d].calls => StateOf(d)' = StateOf(d) ]_vars

C4_Witness ==
    /\ \A d \in Dirs : obs[d].calls >= 1 /\ obs[d].ok
    /\ mem[fwd.ref] # mem[bwd.ref]
    /\ mem[fwd.ref] # mem[ivp.ref]
    /\ mem[bwd.ref] # mem[ivp.ref]

(***************************************************************************)
(* SpecSU: StepUntil(s, init, LinearInterpolator, callback, evs...) on the *)
(* Forward or the Backward stepper of a method, with zero, one or two      *)
(* events.  One step of the specification is one iteration of the loop.    *)
(***************************************************************************)
EvTolerances == {Scale \div 120, Scale \div 20}

\* events at given times, and events at given values of the solution
TimeEvents(sg) ==
    { [kind |-> "time", z |-> sg * q, up |-> up, Tolerance |-> tol, cont |-> c] :
        q \in {Scale \div 8, Scale \div 4, Scale \div 2, (5 * Scale) \div 8},
        up \in {1, -1}, tol \in EvTolerances, c \in BOOLEAN }

ValueEvents ==
    { [kind |-> "value", z |-> z, up |-> 1, Tolerance |-> Scale \div 120,
       cont |-> c] :
        z \in {X0 + Scale \div 4, X0 - Scale \div 4}, c \in BOOLEAN }

Events(sg) == TimeEvents(sg) \cup ValueEvents

EventLists(sg) ==
    {<<>>} \cup { <<e>> : e \in Events(sg) }
           \cup { <<e1, e2>> : e1 \in Events(sg), e2 \in Events(sg) }

SUMethods ==
    { Method("fixed", "euler", 1), Method("fixed", "rk4", 4),
      Method("rkFehlberg", "none", 4) }

InitSU ==
    /\ meth \in SUMethods
    /\ \E f \in Derivs, d \in Dirs, nil \in BOOLEAN :
       \E evs \in EventLists(Sign(d)) :
         LET i == [f |-> f, Time |-> T0, ref |-> "ivp"]
             m0 == [l \in Locs |-> IF l = "ivp" THEN X0 ELSE 0]
             S == IF d = "fwd" THEN Forward(meth, i, m0, "fwd")
                  ELSE Backward(meth, i, m0, "bwd")
         IN  /\ ivp = i
             /\ su = StepUntil_begin(S.s, S.m,
                         [Time |-> T0, Value |-> X0], nil, evs)
    /\ mem = Idle /\ fwd = Idle /\ bwd = Idle /\ obs = Idle
    /\ fp = Idle /\ cache = Idle /\ dense = Idle /\ call = Idle

SU_Step ==
    /\ su.pc = "loop"
    /\ su.nexts < MaxSteps
    /\ su' = StepUntil_iter(su)
    /\ UNCHANGED <<meth, ivp, mem, fwd, bwd, obs, fp, cache, dense, call>>

NextSU == SU_Step

SpecSU == InitSU /\ [][NextSU]_vars

\* the Actions invoked in the last iteration, in order
LastActs == SelectSeq(su.acts, LAMBDA a : a.step = su.nexts)

\* C5: StepUntil returns (_, false) exactly when the last Next() returned
\* ok = FALSE, and (i, true) exactly when the last Action invoked was that
\* of evs[i] and returned false; it never returns otherwise.
C5_ReturnValues ==
    su.pc = "returned" =>
        /\ su.ok <=> su.nextOk
        /\ ~su.ok => su.index = 0
        /\ su.ok =>
              /\ LastActs # <<>>
              /\ LET a == LastActs[Len(LastActs)]
                 IN  /\ ~a.cont
                     /\ a.index = su.index
                     /\ su.index + 1 \in 1..Len(su.evs)
                     /\ ~Action(su.evs[su.index + 1], su.prev)

\* a veto by the event at position 1 that was first in localized time
C5_Witness ==
    /\ su.pc = "returned" /\ su.ok /\ su.index = 1
    /\ Len(su.fired) = 2
    /\ Len(LastActs) = 1

\* C6: when an Action returns false nothing more happens: it is the last
\* Action invoked, callback is not invoked for the point of that step and
\* Next() is not called again.
C6_VetoHalts ==
    \A j \in 1..Len(su.acts) :
        ~su.acts[j].cont =>
            /\ j = Len(su.acts)
            /\ su.pc = "returned"
            /\ su.nexts = su.acts[j].step
            /\ Len(su.cbs) = su.nexts - 1
            /\ su.pts[Len(su.pts)] \notin {su.cbs[k] : k \in 1..Len(su.cbs)}

\* a veto with another fired event still waiting
C6_Witness ==
    /\ su.pc = "returned" /\ su.ok
    /\ su.nexts >= 2
    /\ Len(su.fired) = 2 /\ Len(LastActs) = 1

\* C7: when two or more events fire in one step and all of them are
\* localized, their Actions are invoked, up to a veto, in ascending order of
\* localized time in a forward step and descending order in a backward one.
C7_ActionOrder ==
    (su.nexts > 0 /\ su.nextOk /\ su.why # "FindPoint" /\ Len(su.fired) >= 2)
    => /\ su.why # "reverse"
       /\ LastActs # <<>>
       /\ \A j \in 1..Len(LastActs), k \in 1..Len(LastActs) :
             j < k => IF su.s.h > 0
                      THEN LastActs[j].time <= LastActs[k].time
                      ELSE LastActs[j].time >= LastActs[k].time

\* C8: with a nil callback StepUntil runs and returns as with any other;
\* a callback that is not nil has been invoked once for every point
\* produced in a step where no Action vetoed, in order.
C8_CallbackOptional ==
    /\ su.why # "callback"
    /\ (~su.cbNil /\ su.pc \in {"loop", "returned"}) =>
          su.cbs = SubSeq(su.pts, 1, IF su.pc = "returned" /\ su.ok
                                     THEN Len(su.pts) - 1 ELSE Len(su.pts))

(***************************************************************************)
(* SpecFP: one call of Event.FindPoint(LinearInterpolator, p1, p2) for an  *)
(* event and a segment, forward or backward in time.                       *)
(***************************************************************************)
FPEvents ==
    { [kind |-> k, z |-> z, up |-> up, Tolerance |-> tol, cont |-> TRUE] :
        k \in {"time", "value"},
        z \in {Scale \div 10, Scale \div 4, 0 - Scale \div 10, 0 - Scale \div 4,
               X0 + Scale \div 10, X0 - Scale \div 4},
        up \in {1, -1}, tol \in EvTolerances }

InitFP ==
    /\ \E e \in FPEvents, h \in {StepH, StepH \div 2, -StepH, -(StepH \div 2)},
          x \in {X0 + StepH, X0 - StepH \div 2, X0} :
         fp = [e |-> e, p1 |-> [Time |-> T0, Value |-> X0],
               p2 |-> [Time |-> T0 + h, Value |-> x], done |-> FALSE,
               res |-> [fault |-> "none", pt |-> [Time |-> T0, Value |-> X0],
                        iters |-> 0, bracketed |-> TRUE]]
    /\ meth = Idle /\ ivp = Idle /\ mem = Idle /\ fwd = Idle /\ bwd = Idle
    /\ obs = Idle /\ su = Idle /\ cache = Idle /\ dense = Idle /\ call = Idle

FP_Call ==
    /\ ~fp.done
    /\ fp' = [fp EXCEPT !.done = TRUE, !.res = FindPoint(fp.e, fp.p1, fp.p2)]
    /\ UNCHANGED <<meth, ivp, mem, fwd, bwd, obs, su, cache, dense, call>>

NextFP == FP_Call

SpecFP == InitFP /\ [][NextFP]_vars

\* C9: called with crossing values of opposite strict sign at p1 and p2,
\* FindPoint returns a point between p1 and p2 in time whose crossing value
\* is smaller than Tolerance, forward and backward, and the interval of the
\* search held the zero at every iteration.
C9_FindPointLocalizes ==
    (fp.done /\ \/ Cross(fp.e, fp.p1) < 0 /\ Cross(fp.e, fp.p2) > 0
                \/ Cross(fp.e, fp.p1) > 0 /\ Cross(fp.e, fp.p2) < 0) =>
        /\ fp.res.fault = "none"
        /\ (fp.p1.Time <= fp.res.pt.Time /\ fp.res.pt.Time <= fp.p2.Time)
             \/ (fp.p2.Time <= fp.res.pt.Time /\ fp.res.pt.Time <= fp.p1.Time)
        /\ Abs(Cross(fp.e, fp.res.pt)) < fp.e.Tolerance
        /\ fp.res.bracketed

(***************************************************************************)
(* SpecCache: a CacheSolver made by CacheSolve(meth, ivp,                  *)
(* LinearInterpolator, evs...) and used through Get, StepForward,          *)
(* StepBackward, StepToEnd and StepToBeginning.  cache.last is what the    *)
(* user saw of the last call: the operation, its argument, the lists, the  *)
(* steppers and the range covered before it, whether the stepper of the    *)
(* direction could reach t, the results, and the log of the operation.     *)
(* cache.prev is the call before the last.                                 *)
(***************************************************************************)
MaxOps == 3

CacheMethods ==
    { Method("fixed", "euler", 1), Method("fixed", "rk4", 4),
      Method("rkFehlberg", "none", 4), Method("adaptive", "euler", 1) }

\* an event at time z
CacheEvent(z, c) ==
    [kind |-> "time", z |-> z, up |-> 1, Tolerance |-> Scale \div 20,
     cont |-> c]

CacheEventLists ==
    {<<>>} \cup { <<CacheEvent(z, c)>> :
                    z \in {Scale \div 4, 0 - Scale \div 4}, c \in BOOLEAN }
           \cup { <<CacheEvent(zz[1], TRUE), CacheEvent(zz[2], c)>> :
                    zz \in { <<Scale \div 4, Scale \div 8>>,
                             <<0 - Scale \div 4, 0 - (9 * Scale) \div 40>>,
                             <<0 - Scale \div 4, 0 - Scale \div 8>> },
                    c \in BOOLEAN }

GetTimes == { k * (Scale \div 8) : k \in {-10, -4, -3, 0, 3, 4, 10} }

StepDeltas == {Scale \div 4, 0 * Scale, 0 - Scale \div 4}

World == [c |-> [forward |-> cache.forward, backward |-> cache.backward,
                 forNil |-> cache.forNil, backNil |-> cache.backNil,
                 evs |-> cache.evs],
          fs |-> fwd, bs |-> bwd, m |-> mem,
          log |-> [fcalls |-> 0, bcalls |-> 0,
                   fexh |-> cache.fexh, bexh |-> cache.bexh,
                   fpulled |-> cache.fpulled, bpulled |-> cache.bpulled,
                   femitted |-> cache.femitted, bemitted |-> cache.bemitted,
                   cmps |-> <<>>, acts |-> <<>>, pts |-> <<>>, why |-> ""]]

\* the stepper s, whose last point was at time cur, produces a point at or
\* beyond t
RECURSIVE Reaches(_, _, _, _, _)
Reaches(s, m, cur, t, fuel) ==
    IF (s.h > 0 /\ cur >= t) \/ (s.h < 0 /\ cur <= t) THEN TRUE
    ELSE IF fuel = 0 THEN FALSE
    ELSE With(StepperNext(s, m), LAMBDA r :
           IF r.fault # "none" \/ ~r.ok THEN FALSE
           ELSE Reaches(r.s, r.m, r.pt.Time, t, fuel - 1))

\* what a call of Next() on the stepper s would return: [ok, pt]
Ahead(s, m, nil) ==
    IF nil THEN [ok |-> FALSE, pt |-> [Time |-> 0, Value |-> Nil]]
    ELSE With(StepperNext(s, m), LAMBDA r :
           [ok |-> r.fault = "none" /\ r.ok, pt |-> r.pt])

NoCall == [op |-> "none", t |-> T0, ok |-> TRUE, x |-> Nil,
           start |-> T0, end |-> T0, acts |-> <<>>]

InitCache ==
    /\ meth \in CacheMethods
    /\ \E f \in Derivs, evs \in CacheEventLists :
         LET i == [f |-> f, Time |-> T0, ref |-> "ivp"]
             m0 == [l \in Locs |-> IF l = "ivp" THEN X0 ELSE 0]
             F == Forward(meth, i, m0, "fwd")
             B == Backward(meth, i, F.m, "bwd")
             W == CacheSolve(F.s, B.s, B.m, [Time |-> T0, Value |-> X0], evs)
         IN  /\ ivp = i
             /\ fwd = W.fs
             /\ bwd = W.bs
             /\ mem = W.m
             /\ cache = [forward |-> W.c.forward, backward |-> W.c.backward,
                         forNil |-> W.c.forNil, backNil |-> W.c.backNil,
                         evs |-> W.c.evs, fault |-> "none", ops |-> 0,
                         fexh |-> FALSE, bexh |-> FALSE,
                         fpulled |-> W.c.forward[1],
                         bpulled |-> W.c.forward[1],
                         femitted |-> <<>>, bemitted |-> <<>>,
                         prev |-> NoCall,
                         last |-> [op |-> "none", t |-> T0, h |-> 0,
                                   ok |-> TRUE,
                                   x |-> Nil, start |-> T0, end |-> T0,
                                   reach |-> FALSE,
                                   nfwd |-> 1, nbwd |-> 0,
                                   fexh0 |-> FALSE, bexh0 |-> FALSE,
                                   fpulled0 |-> W.c.forward[1],
                                   bpulled0 |-> W.c.forward[1],
                                   fconf |-> FALSE, bconf |-> FALSE,
                                   asGet |-> TRUE,
                                   ahead |-> Ahead(W.fs, W.m, TRUE),
                                   fcalls |-> 0, bcalls |-> 0,
                                   cmps |-> <<>>, acts |-> <<>>,
                                   pts |-> <<>>, why |-> ""]]
    /\ obs = Idle /\ su = Idle /\ fp = Idle /\ dense = Idle /\ call = Idle

CacheRunning == cache.fault = "none" /\ cache.ops < MaxOps

\* the call op, with the time t it asks for and the delta h it was given,
\* had the outcome r
CacheDone(op, t, h, r) ==
    /\ cache' = [forward |-> r.W.c.forward, backward |-> r.W.c.backward,
                 forNil |-> r.W.c.forNil, backNil |-> r.W.c.backNil,
                 evs |-> r.W.c.evs, fault |-> r.fault, ops |-> cache.ops + 1,
                 fexh |-> r.W.log.fexh, bexh |-> r.W.log.bexh,
                 fpulled |-> r.W.log.fpulled, bpulled |-> r.W.log.bpulled,
                 femitted |-> r.W.log.femitted,
                 bemitted |-> r.W.log.bemitted,
                 prev |-> [f \in DOMAIN NoCall |-> cache.last[f]],
                 last |-> [op |-> op, t |-> t, h |-> h,
                           ok |-> r.ok, x |-> r.x,
                           start |-> CacheSolver_Start(World.c),
                           end |-> CacheSolver_End(World.c),
                           reach |->
                             IF t > CacheSolver_End(World.c)
                             THEN ~cache.forNil /\
                                  Reaches(fwd, mem, CacheSolver_End(World.c),
                                          t, MaxTrials)
                             ELSE IF t < CacheSolver_Start(World.c)
                             THEN ~cache.backNil /\
                                  Reaches(bwd, mem, CacheSolver_Start(World.c),
                                          t, MaxTrials)
                             ELSE TRUE,
                           nfwd |-> Len(cache.forward),
                           nbwd |-> Len(cache.backward),
                           fexh0 |-> cache.fexh, bexh0 |-> cache.bexh,
                           fpulled0 |-> cache.fpulled,
                           bpulled0 |-> cache.bpulled,
                           fconf |-> ~cache.forNil /\ fwd.kind \in Configurable,
                           bconf |-> ~cache.backNil /\ bwd.kind \in Configurable,
                           asGet |->
                             IF op = "StepForward" /\
                                ~(~cache.forNil /\ fwd.kind \in Configurable)
                             THEN r = CacheSolver_Get(World, t)
                             ELSE IF op = "StepBackward" /\
                                ~(~cache.backNil /\ bwd.kind \in Configurable)
                             THEN r = CacheSolver_Get(World, t)
                             ELSE TRUE,
                           ahead |->
                             IF t > CacheSolver_End(World.c)
                             THEN Ahead(fwd, mem, cache.forNil)
                             ELSE IF t < CacheSolver_Start(World.c)
                             THEN Ahead(bwd, mem, cache.backNil)
                             ELSE Ahead(fwd, mem, TRUE),
                           fcalls |-> r.W.log.fcalls,
                           bcalls |-> r.W.log.bcalls,
                           cmps |-> r.W.log.cmps, acts |-> r.W.log.acts,
                           pts |-> r.W.log.pts, why |-> r.W.log.why]]
    /\ fwd' = r.W.fs
    /\ bwd' = r.W.bs
    /\ mem' = r.W.m
    /\ UNCHANGED <<meth, ivp, obs, su, fp, dense, call>>

Cache_Get(t) ==
    /\ CacheRunning
    /\ CacheDone("Get", t, 0, CacheSolver_Get(World, t))

Cache_StepForward(h) ==
    /\ CacheRunning
    /\ CacheDone("StepForward", CacheSolver_End(World.c) + h, h,
                 CacheSolver_StepForward(World, h))

Cache_StepBackward(h) ==
    /\ CacheRunning
    /\ CacheDone("StepBackward", CacheSolver_Start(World.c) - h, h,
                 CacheSolver_StepBackward(World, h))

\* StepToEnd and StepToBeginning ask for no time: t is the boundary
Cache_StepToEnd ==
    /\ CacheRunning
    /\ CacheDone("StepToEnd", CacheSolver_End(World.c), 0,
                 CacheSolver_StepToEnd(World))

Cache_StepToBeginning ==
    /\ CacheRunning
    /\ CacheDone("StepToBeginning", CacheSolver_Start(World.c), 0,
                 CacheSolver_StepToBeginning(World))

NextCache ==
    \/ \E t \in GetTimes : Cache_Get(t)
    \/ \E h \in StepDeltas : Cache_StepForward(h)
    \/ \E h \in StepDeltas : Cache_StepBackward(h)
    \/ Cache_StepToEnd
    \/ Cache_StepToBeginning

SpecCache == InitCache /\ [][NextCache]_vars

\* C10: Get(t) for t outside of [Start(), End()], when the stepper of that
\* direction produces points up to or beyond t and no event vetoes, returns
\* ok = TRUE and afterwards Start() <= t <= End(), forward and backward.
C10_GetExpands ==
    (/\ cache.last.op = "Get"
     /\ cache.last.t < cache.last.start \/ cache.last.t > cache.last.end
     /\ cache.last.reach
     /\ \A i \in 1..Len(cache.evs) : cache.evs[i].cont)
    => /\ cache.fault = "none"
       /\ cache.last.ok
       /\ CacheSolver_Start(cache) <= cache.last.t
       /\ cache.last.t <= CacheSolver_End(cache)

\* the stored points of the cache in the order of the solution
Reverse(s) == [i \in 1..Len(s) |-> s[Len(s) + 1 - i]]

CacheNodes == Reverse(cache.backward) \o cache.forward

NodeTimes == { CacheNodes[k].Time : k \in 1..Len(CacheNodes) }

Covered(t) == CacheSolver_Start(cache) <= t /\ t <= CacheSolver_End(cache)

\* C11: Get(t) for a covered t that is not the time of a stored point does
\* not fault and returns ok = TRUE with the interpolation of the two
\* adjacent stored points p, q with p.Time < t < q.Time, between forward
\* points, between backward points and between the first backward point and
\* the initial point.
C11_GetInterpolates ==
    (cache.last.op = "Get" /\ Covered(cache.last.t)
        /\ cache.last.t \notin NodeTimes)
    => /\ cache.fault = "none"
       /\ cache.last.ok
       /\ \E k \in 1..(Len(CacheNodes) - 1) :
             /\ CacheNodes[k].Time < cache.last.t
             /\ cache.last.t < CacheNodes[k + 1].Time
             /\ cache.last.x = LinearInterpolator_FindValue(
                                   CacheNodes[k], CacheNodes[k + 1],
                                   cache.last.t)

\* C12: Get(t) for t the time of a stored point does not fault and returns
\* ok = TRUE with the value stored for that point; so does Get of the
\* initial time on a cache just created.
C12_GetAtNode ==
    (cache.last.op = "Get" /\ Covered(cache.last.t)
        /\ cache.last.t \in NodeTimes)
    => /\ cache.fault = "none"
       /\ cache.last.ok
       /\ \E k \in 1..Len(CacheNodes) :
             /\ CacheNodes[k].Time = cache.last.t
             /\ cache.last.x = CacheNodes[k].Value

\* C13: Get(t) for a t that was covered when it was called returns without
\* fault, makes no call to forStep or backStep and leaves forward and
\* backward as they were; called again for the same t it returns the same
\* values.
C13_GetIdempotent ==
    (/\ cache.last.op = "Get"
     /\ cache.last.start <= cache.last.t
     /\ cache.last.t <= cache.last.end)
    => /\ cache.fault = "none"
       /\ cache.last.fcalls = 0 /\ cache.last.bcalls = 0
       /\ Len(cache.forward) = cache.last.nfwd
       /\ Len(cache.backward) = cache.last.nbwd
       /\ (/\ cache.prev.op = "Get"
           /\ cache.prev.t = cache.last.t
           /\ cache.prev.start <= cache.prev.t
           /\ cache.prev.t <= cache.prev.end)
          => (cache.last.ok = cache.prev.ok /\ cache.last.x = cache.prev.x)

\* C14: after any sequence of Get, StepForward, StepBackward, StepToEnd and
\* StepToBeginning, with deltas of any sign, forward is not empty, starts
\* with the initial point and has strictly increasing times, and backward
\* has strictly decreasing times, all below the time of the initial point.
C14_ListsMonotone ==
    /\ Len(cache.forward) >= 1
    /\ cache.forward[1] = [Time |-> T0, Value |-> X0]
    /\ \A k \in 1..(Len(cache.forward) - 1) :
          cache.forward[k].Time < cache.forward[k + 1].Time
    /\ \A k \in 1..(Len(cache.backward) - 1) :
          cache.backward[k].Time > cache.backward[k + 1].Time
    /\ \A k \in 1..Len(cache.backward) :
          cache.backward[k].Time < cache.forward[1].Time

\* the last call had to expand forward (backward)
ExpandsForward ==
    \/ cache.last.op = "StepToEnd"
    \/ cache.last.op = "StepForward" /\ cache.last.h > 0
    \/ cache.last.op = "Get" /\ cache.last.t > cache.last.end

ExpandsBackward ==
    \/ cache.last.op = "StepToBeginning"
    \/ cache.last.op = "StepBackward" /\ cache.last.h > 0
    \/ cache.last.op = "Get" /\ cache.last.t < cache.last.start

\* C15: once forStep (backStep) has returned ok = FALSE in any operation,
\* every later Get, StepForward (StepBackward) or StepToEnd
\* (StepToBeginning) that has to expand in that direction ends without
\* fault and without a call to that stepper, and Get and StepForward
\* (StepBackward) return ok = FALSE.
C15_RetiredForGood ==
    /\ (cache.last.fexh0 /\ ExpandsForward)
       => /\ cache.fault = "none"
          /\ cache.last.fcalls = 0
          /\ cache.last.op # "StepToEnd" => ~cache.last.ok
    /\ (cache.last.bexh0 /\ ExpandsBackward)
       => /\ cache.fault = "none"
          /\ cache.last.bcalls = 0
          /\ cache.last.op # "StepToBeginning" => ~cache.last.ok

\* C16: after any calls, a successful StepForward(h) with h > 0 on a
\* ConfigurableStepper appends exactly one point, at the time End() had
\* before the call plus h, and returns its value; a successful
\* StepBackward(h) appends exactly one point at the former Start() minus h
\* and returns its value; with a stepper that is not configurable the call
\* is Get(End() + h), resp. Get(Start() - h).
C16_StepByDelta ==
    /\ (/\ cache.last.op = "StepForward" /\ cache.last.h > 0
        /\ cache.last.fconf /\ cache.fault = "none" /\ cache.last.ok)
       => /\ Len(cache.forward) = cache.last.nfwd + 1
          /\ cache.forward[Len(cache.forward)].Time
                = cache.last.end + cache.last.h
          /\ cache.last.x = cache.forward[Len(cache.forward)].Value
    /\ (/\ cache.last.op = "StepBackward" /\ cache.last.h > 0
        /\ cache.last.bconf /\ cache.fault = "none" /\ cache.last.ok)
       => /\ Len(cache.backward) = cache.last.nbwd + 1
          /\ cache.backward[Len(cache.backward)].Time
                = cache.last.start - cache.last.h
          /\ cache.last.x = cache.backward[Len(cache.backward)].Value
    /\ (cache.last.op = "StepForward" /\ ~cache.last.fconf)
       => cache.last.asGet
    /\ (cache.last.op = "StepBackward" /\ ~cache.last.bconf)
       => cache.last.asGet

\* the points the last call added to forward (backward)
AddedForward ==
    SubSeq(cache.forward, cache.last.nfwd + 1, Len(cache.forward))

AddedBackward ==
    SubSeq(cache.backward, cache.last.nbwd + 1, Len(cache.backward))

\* the points the stepper produced in steps that no Action vetoed
Unvetoed ==
    IF cache.last.why = "veto"
    THEN SubSeq(cache.last.pts, 1, Len(cache.last.pts) - 1)
    ELSE cache.last.pts

\* C17: StepToEnd (StepToBeginning) runs StepUntil on forStep (backStep)
\* until the stepper returns ok = FALSE or an Action returns false, and
\* appends to forward (backward), in order, every point the stepper
\* produced in the call, up to the point an Action vetoed.
C17_StepToAppendsAll ==
    /\ cache.last.op = "StepToEnd"
       => /\ cache.fault = "none"
          /\ cache.last.why \in {"exhausted", "veto"}
          /\ AddedForward = Unvetoed
    /\ cache.last.op = "StepToBeginning"
       => /\ cache.fault = "none"
          /\ cache.last.why \in {"exhausted", "veto"}
          /\ AddedBackward = Unvetoed

\* the Actions the last call invoked for the first point it pulled
FirstActs == SelectSeq(cache.last.acts, LAMBDA a : a.step = 1)

\* C18: the crossing values that Get compares the first point it pulls
\* with are those of the point that stepper returned last, in this call or
\* an earlier one; so an event whose Action vetoed in a Get is not detected
\* again for the first point the next Get pulls in that direction.
C18_CrossingsPersist ==
    (cache.last.op = "Get" /\ cache.last.cmps # <<>>)
    => LET c1 == cache.last.cmps[1]
           pulled == IF c1.dir = "bwd" THEN cache.last.bpulled0
                     ELSE cache.last.fpulled0
       IN  /\ \A i \in 1..Len(cache.evs) :
                 c1.vals[i] = Cross(cache.evs[i], pulled)
           /\ (/\ cache.prev.op = "Get"
               /\ (cache.prev.t < cache.prev.start) = (c1.dir = "bwd")
               /\ cache.prev.acts # <<>>
               /\ ~cache.prev.acts[Len(cache.prev.acts)].cont)
              => \A j \in 1..Len(FirstActs) :
                    FirstActs[j].index
                       # cache.prev.acts[Len(cache.prev.acts)].index

\* the stored point at the end of the list that the last call had to expand
Boundary ==
    [Time |-> IF cache.last.t > cache.last.end THEN cache.last.end
              ELSE cache.last.start,
     Value |-> Nil]

\* the events that fire on the point the stepper returns next
Firing ==
    { i \in 1..Len(cache.evs) :
        differentSign(Cross(cache.evs[i], Boundary),
                      Cross(cache.evs[i], cache.last.ahead.pt)) }

\* C19: when Get has to expand and two or more events fire on the point the
\* stepper returns, their Actions are invoked in ascending localized time
\* in a forward expansion and in descending localized time in a backward
\* one; all of them when none returns false, and else up to the first that
\* returns false, after which Get returns ok = FALSE, invokes no other
\* Action and appends nothing.
C19_ActionsInOrder ==
    (/\ cache.last.op = "Get"
     /\ cache.last.t > cache.last.end \/ cache.last.t < cache.last.start
     /\ cache.last.ahead.ok
     /\ Cardinality(Firing) >= 2)
    => /\ FirstActs # <<>>
       /\ \A j \in 1..Len(FirstActs) : FirstActs[j].index + 1 \in Firing
       /\ \A j \in 1..(Len(FirstActs) - 1) :
             /\ FirstActs[j].cont
             /\ FirstActs[j].index # FirstActs[j + 1].index
             /\ IF cache.last.t > cache.last.end
                THEN FirstActs[j].time <= FirstActs[j + 1].time
                ELSE FirstActs[j].time >= FirstActs[j + 1].time
       /\ IF FirstActs[Len(FirstActs)].cont
          THEN Len(FirstActs) = Cardinality(Firing)
          ELSE /\ ~cache.last.ok
               /\ cache.last.acts = FirstActs
               /\ Len(cache.forward) = cache.last.nfwd
               /\ Len(cache.backward) = cache.last.nbwd

(***************************************************************************)
(* dense.go: DenseSolution, DenseSolve.  D is the activation of            *)
(* DenseSolve: the two steppers and the memory, the slice `points`,        *)
(* `current` and `prev` by content, pendingAddInitial, the index at which  *)
(* ivp.Start was appended without a Clone (0: nowhere), the number of      *)
(* points in `points` when the reversal began, the calls of Next and how   *)
(* many of them returned a point.                                          *)
(* An outcome is [D, ok, fault, at]: at says where a fault arose.          *)
(***************************************************************************)
DenseOut(D, ok, fault, at) == [D |-> D, ok |-> ok, fault |-> fault, at |-> at]

\* &ivp.Start, by content
DenseInitial(i, m) == [Time |-> i.Time, Value |-> m[i.ref]]

\* for end < current.Time { prev = current.Clone(); current, ok = ... }
RECURSIVE DenseSolve_leftLoop(_, _, _)
DenseSolve_leftLoop(D, end, fuel) ==
    IF ~(end < D.current.Time) THEN DenseOut(D, TRUE, "none", "")
    ELSE IF fuel = 0 THEN DenseOut(D, FALSE, "hang", "left")
    ELSE
    With(StepperNext(D.bs, D.m), LAMBDA r :
    With([D EXCEPT !.bs = r.s, !.m = r.m, !.bcalls = @ + 1,
                   !.bgood = IF r.fault = "none" /\ r.ok THEN @ + 1 ELSE @,
                   !.prev = D.current], LAMBDA D1 :
      IF r.fault # "none" THEN DenseOut(D1, FALSE, r.fault, "stepper")
      ELSE IF ~r.ok THEN DenseOut(D1, FALSE, "none", "")
      ELSE DenseSolve_leftLoop([D1 EXCEPT !.current = r.pt], end, fuel - 1)))

\* special case: end is on the left
DenseSolve_endOnLeft(D, end) ==
    IF ~(end < D.current.Time) THEN DenseOut(D, TRUE, "none", "")
    ELSE
    With(DenseSolve_leftLoop(D, end, MaxTrials), LAMBDA o :
      IF o.fault # "none" \/ ~o.ok THEN o
      ELSE DenseOut(
             [o.D EXCEPT !.points =
                           (IF o.D.current.Time < end THEN <<o.D.prev>>
                            ELSE <<>>) \o <<o.D.current>>,
                         !.pending = FALSE],
             TRUE, "none", ""))

\* for start < current.Time { ... }: move backwards until the start
RECURSIVE DenseSolve_backLoop(_, _, _)
DenseSolve_backLoop(D, start, fuel) ==
    IF ~(start < D.current.Time) THEN DenseOut(D, TRUE, "none", "")
    ELSE IF fuel = 0 THEN DenseOut(D, FALSE, "hang", "back")
    ELSE
    With(StepperNext(D.bs, D.m), LAMBDA r :
    With([D EXCEPT !.bs = r.s, !.m = r.m, !.bcalls = @ + 1,
                   !.bgood = IF r.fault = "none" /\ r.ok THEN @ + 1 ELSE @],
         LAMBDA D1 :
      IF r.fault # "none" THEN DenseOut(D1, FALSE, r.fault, "stepper")
      ELSE IF ~r.ok THEN DenseOut(D1, TRUE, "none", "")
      ELSE DenseSolve_backLoop(
               [D1 EXCEPT !.current = r.pt, !.points = Append(@, r.pt)],
               start, fuel - 1)))

\* for i := 0; i < size/2; i++ { points[i], points[size-i] = ... }, with
\* the slice indexed from 1 here: points[size-i] is element size - i + 1
RECURSIVE DenseSolve_reverse(_, _)
DenseSolve_reverse(points, i) ==
    IF ~(i < Len(points) \div 2) THEN [fault |-> "none", points |-> points]
    ELSE IF Len(points) - i >= Len(points)
    THEN [fault |-> "panic", points |-> points]
    ELSE DenseSolve_reverse(
             [points EXCEPT ![i + 1] = points[Len(points) - i + 1],
                            ![Len(points) - i + 1] = points[i + 1]],
             i + 1)

\* for start > current.Time { prev = current.Clone(); current, ok = ... }
RECURSIVE DenseSolve_rightLoop(_, _, _)
DenseSolve_rightLoop(D, start, fuel) ==
    IF ~(start > D.current.Time) THEN DenseOut(D, TRUE, "none", "")
    ELSE IF fuel = 0 THEN DenseOut(D, FALSE, "hang", "right")
    ELSE
    With(StepperNext(D.fs, D.m), LAMBDA r :
    With([D EXCEPT !.fs = r.s, !.m = r.m, !.fcalls = @ + 1,
                   !.fgood = IF r.fault = "none" /\ r.ok THEN @ + 1 ELSE @,
                   !.prev = D.current], LAMBDA D1 :
      IF r.fault # "none" THEN DenseOut(D1, FALSE, r.fault, "stepper")
      ELSE IF ~r.ok THEN DenseOut(D1, FALSE, "none", "")
      ELSE DenseSolve_rightLoop([D1 EXCEPT !.current = r.pt],
                                start, fuel - 1)))

\* special case: start is on the right
DenseSolve_startOnRight(D, start) ==
    IF ~(start > D.current.Time) THEN DenseOut(D, TRUE, "none", "")
    ELSE
    With(DenseSolve_rightLoop(D, start, MaxTrials), LAMBDA o :
      IF o.fault # "none" \/ ~o.ok THEN o
      ELSE DenseOut(
             [o.D EXCEPT !.points =
                           @ \o (IF o.D.current.Time > start
                                 THEN <<o.D.prev>> ELSE <<>>)
                             \o <<o.D.current>>,
                         !.pending = FALSE],
             TRUE, "none", ""))

\* for end > current.Time { ... }: move forwards until the end
RECURSIVE DenseSolve_forLoop(_, _, _)
DenseSolve_forLoop(D, end, fuel) ==
    IF ~(end > D.current.Time) THEN DenseOut(D, TRUE, "none", "")
    ELSE IF fuel = 0 THEN DenseOut(D, FALSE, "hang", "for")
    ELSE
    With(StepperNext(D.fs, D.m), LAMBDA r :
    With([D EXCEPT !.fs = r.s, !.m = r.m, !.fcalls = @ + 1,
                   !.fgood = IF r.fault = "none" /\ r.ok THEN @ + 1 ELSE @],
         LAMBDA D1 :
      IF r.fault # "none" THEN DenseOut(D1, FALSE, r.fault, "stepper")
      ELSE IF ~r.ok THEN DenseOut(D1, TRUE, "none", "")
      ELSE DenseSolve_forLoop(
               [D1 EXCEPT !.current = r.pt, !.points = Append(@, r.pt)],
               end, fuel - 1)))

\* the slice returned: the Value of ivp.Start, appended without a Clone,
\* is the caller's slice as it is at the return
DenseSolve_returned(D, i) ==
    [D EXCEPT !.points = [k \in 1..Len(D.points) |->
                            IF k = D.initAt THEN DenseInitial(i, D.m)
                            ELSE D.points[k]]]

DenseSolve(method, i, m0, start, end) ==
    With(Forward(method, i, m0, "fwd"), LAMBDA F :
    With(Backward(method, i, F.m, "bwd"), LAMBDA B :
    With([fs |-> F.s, bs |-> B.s, m |-> B.m, points |-> <<>>,
          current |-> DenseInitial(i, B.m),
          prev |-> [Time |-> 0, Value |-> Nil],
          pending |-> TRUE, initAt |-> 0, nback |-> 0,
          fcalls |-> 0, bcalls |-> 0, fgood |-> 0, bgood |-> 0],
         LAMBDA D0 :
    With(DenseSolve_endOnLeft(D0, end), LAMBDA o1 :
      IF o1.fault # "none" \/ ~o1.ok THEN o1 ELSE
    With(DenseSolve_backLoop(o1.D, start, MaxTrials), LAMBDA o2 :
      IF o2.fault # "none" THEN o2 ELSE
    With(DenseSolve_reverse(o2.D.points, 0), LAMBDA rv :
    With([o2.D EXCEPT !.points = rv.points, !.nback = Len(rv.points),
                      !.current = DenseInitial(i, o2.D.m)], LAMBDA D3 :
      IF rv.fault # "none" THEN DenseOut(D3, FALSE, rv.fault, "reverse") ELSE
    With(DenseSolve_startOnRight(D3, start), LAMBDA o4 :
      IF o4.fault # "none" \/ ~o4.ok THEN o4 ELSE
    With(IF o4.D.pending
         THEN [o4.D EXCEPT !.points = Append(@, DenseInitial(i, o4.D.m)),
                           !.initAt = Len(o4.D.points) + 1]
         ELSE o4.D, LAMBDA D5 :
    With(DenseSolve_forLoop(D5, end, MaxTrials), LAMBDA o6 :
      IF o6.fault # "none" THEN o6
      ELSE DenseOut(DenseSolve_returned(o6.D, i), TRUE, "none", "")
    ))))))))))

\* DenseSolution.Start, DenseSolution.End
DenseSolution_Start(points) == points[1].Time

DenseSolution_End(points) == points[Len(points)].Time

\* DenseSolution.search(time, min, max), with min and max the indices of
\* the code (from 0): [fault, x, calls, pair].  calls lists the <<min, max>>
\* of the activations, pair is <<i, j>> when the value is FindValue of
\* points[i] and points[j].  An activation with the arguments of an earlier
\* one recurses without end: the goroutine's stack overflows.
RECURSIVE DenseSolution_search(_, _, _, _, _)
DenseSolution_search(points, time, min, max, calls) ==
    With(Append(calls, <<min, max>>), LAMBDA cs :
    IF \E k \in 1..Len(calls) : calls[k] = <<min, max>>
    THEN [fault |-> "overflow", x |-> Nil, calls |-> calls, pair |-> <<>>]
    ELSE IF min = max
    THEN [fault |-> "none", x |-> points[min + 1].Value, calls |-> cs,
          pair |-> <<>>]
    ELSE IF max - min = 1
    THEN (IF time = points[min + 1].Time
          THEN [fault |-> "none", x |-> points[min + 1].Value, calls |-> cs,
                pair |-> <<>>]
          ELSE IF time = points[max + 1].Time
          THEN [fault |-> "none", x |-> points[max + 1].Value, calls |-> cs,
                pair |-> <<>>]
          ELSE [fault |-> "none",
                x |-> LinearInterpolator_FindValue(points[min + 1],
                                                   points[max + 1], time),
                calls |-> cs, pair |-> <<min, max>>])
    ELSE
    With(Quot(max - min, 2), LAMBDA mid :
      IF mid < 0 \/ mid >= Len(points)
      THEN [fault |-> "panic", x |-> Nil, calls |-> cs, pair |-> <<>>]
      ELSE IF time = points[mid + 1].Time
      THEN [fault |-> "none", x |-> points[mid + 1].Value, calls |-> cs,
            pair |-> <<>>]
      ELSE IF time > points[mid + 1].Time
      THEN DenseSolution_search(points, time, mid, max, cs)
      ELSE DenseSolution_search(points, time, min, mid, cs)))

\* DenseSolution.Get: [ok, fault, x, calls, pair]
DenseSolution_Get(points, time) ==
    IF time < DenseSolution_Start(points)
    THEN [ok |-> FALSE, fault |-> "none", x |-> points[1].Value,
          calls |-> <<>>, pair |-> <<>>]
    ELSE IF time > DenseSolution_End(points)
    THEN [ok |-> FALSE, fault |-> "none", x |-> points[Len(points)].Value,
          calls |-> <<>>, pair |-> <<>>]
    ELSE With(DenseSolution_search(points, time, 0, Len(points) - 1, <<>>),
              LAMBDA r :
           [ok |-> r.fault = "none", fault |-> r.fault, x |-> r.x,
            calls |-> r.calls, pair |-> r.pair])

(***************************************************************************)
(* SpecDense: one call of DenseSolve for a method, an IVP and an           *)
(* interval.  dense holds the arguments and, once the call is over, its    *)
(* second return value, the points of the DenseSolution, whether the call  *)
(* returned at all and where it did not, the number of points gathered     *)
(* before the reversal and the calls made to the steppers.  On the         *)
(* solution returned the caller then calls Get: dense.get is the last      *)
(* call, with its time, its results and the activations of search.         *)
(***************************************************************************)
DenseTimes == { k * (Scale \div 4) : k \in -8..8 }

NoGet == [n |-> 0, t |-> T0, ok |-> FALSE, fault |-> "none", x |-> Nil,
          calls |-> <<>>, pair |-> <<>>]

InitDense ==
    /\ meth \in Methods
    /\ \E f \in Derivs : ivp = [f |-> f, Time |-> T0, ref |-> "ivp"]
    /\ mem = [l \in Locs |-> IF l = "ivp" THEN X0 ELSE 0]
    /\ call = Idle
    /\ \E s \in DenseTimes, e \in DenseTimes :
         dense = [pc |-> "call", start |-> s, end |-> e, ok |-> FALSE,
                  points |-> <<>>, fault |-> "none", at |-> "",
                  nback |-> 0, fcalls |-> 0, bcalls |-> 0,
                  fgood |-> 0, bgood |-> 0, get |-> NoGet]
    /\ fwd = Idle /\ bwd = Idle /\ obs = Idle /\ su = Idle /\ fp = Idle
    /\ cache = Idle

Dense_Solve ==
    /\ dense.pc = "call"
    /\ With(DenseSolve(meth, ivp, mem, dense.start, dense.end), LAMBDA o :
         /\ dense' = [pc |-> "done", start |-> dense.start,
                      end |-> dense.end, ok |-> o.ok,
                      points |-> IF o.fault = "none" /\ o.ok
                                 THEN o.D.points ELSE <<>>,
                      fault |-> o.fault, at |-> o.at,
                      nback |-> o.D.nback,
                      fcalls |-> o.D.fcalls, bcalls |-> o.D.bcalls,
                      fgood |-> o.D.fgood, bgood |-> o.D.bgood,
                      get |-> NoGet]
         /\ fwd' = o.D.fs
         /\ bwd' = o.D.bs
         /\ mem' = o.D.m)
    /\ UNCHANGED <<meth, ivp, obs, su, fp, cache, call>>

\* the times of the points of the solution
DenseNodeTimes == { dense.points[k].Time : k \in 1..Len(dense.points) }

Dense_Get(t) ==
    /\ dense.pc = "done" /\ dense.fault = "none" /\ dense.ok
    /\ With(DenseSolution_Get(dense.points, t), LAMBDA r :
         dense' = [dense EXCEPT !.get = [n |-> 1, t |-> t, ok |-> r.ok,
                                         fault |-> r.fault, x |-> r.x,
                                         calls |-> r.calls,
                                         pair |-> r.pair]])
    /\ UNCHANGED <<meth, ivp, mem, fwd, bwd, obs, su, fp, cache, call>>

NextDense ==
    \/ Dense_Solve
    \/ \E t \in DenseTimes \cup DenseNodeTimes : Dense_Get(t)

SpecDense == InitDense /\ [][NextDense]_vars

\* C20: a call DenseSolve(method, ivp, start, end, interp) with
\* start <= end in which no call of a stepper faults returns, and when it
\* returns ok = TRUE the times of the points stored are strictly
\* increasing, however many points were gathered backwards, also for
\* end < ivp.Start.Time and for start > ivp.Start.Time.
C20_DensePointsIncrease ==
    (dense.pc = "done" /\ dense.start <= dense.end /\ dense.at # "stepper")
    => /\ dense.fault = "none"
       /\ dense.ok
          => /\ dense.points # <<>>
             /\ \A k \in 1..(Len(dense.points) - 1) :
                   dense.points[k].Time < dense.points[k + 1].Time

\* a stepper of the call returned ok = FALSE
DenseExhausted == dense.fcalls > dense.fgood \/ dense.bcalls > dense.bgood

\* C21: a call DenseSolve over [start, end] returns; the solution has at
\* most one stored point before start and at most one after end; and when
\* a stepper returned ok = FALSE before its boundary was reached the call
\* still returns ok = TRUE with a solution, whose interval falls short.
C21_DenseAtMostOneBeyond ==
    (dense.pc = "done" /\ dense.start <= dense.end /\ dense.at # "stepper")
    => /\ dense.fault = "none"
       /\ dense.ok
          => /\ Cardinality({ k \in 1..Len(dense.points) :
                                dense.points[k].Time < dense.start }) <= 1
             /\ Cardinality({ k \in 1..Len(dense.points) :
                                dense.points[k].Time > dense.end }) <= 1
       /\ DenseExhausted
          => /\ dense.ok /\ dense.points # <<>>
             /\ \/ dense.points[1].Time > dense.start
                \/ dense.points[Len(dense.points)].Time < dense.end

\* C22: DenseSolve returns ok = FALSE only when no call of a stepper
\* returned a point.
C22_DenseFalseOnlyWithoutPoints ==
    (dense.pc = "done" /\ dense.fault = "none" /\ ~dense.ok)
    => dense.fgood + dense.bgood = 0

\* C23: on a solution of any number of points, Get of the time of a stored
\* point returns, with ok = TRUE and the value stored for a point of that
\* time, and no interpolation is made.
C23_DenseGetAtNode ==
    (dense.get.n > 0 /\ dense.get.t \in DenseNodeTimes)
    => /\ dense.get.fault = "none"
       /\ dense.get.ok
       /\ dense.get.pair = <<>>
       /\ \E k \in 1..Len(dense.points) :
             /\ dense.points[k].Time = dense.get.t
             /\ dense.points[k].Value = dense.get.x

\* C25: Get(t) for a t with Start() <= t <= End() returns; every
\* activation of search after the first has a range [min, max] inside the
\* range of the one before and strictly smaller; and for a t that is not
\* the time of a stored point the value is the interpolation of the two
\* adjacent stored points that t lies between.
C25_DenseSearchShrinks ==
    (/\ dense.get.n > 0
     /\ DenseSolution_Start(dense.points) <= dense.get.t
     /\ dense.get.t <= DenseSolution_End(dense.points))
    => /\ dense.get.fault = "none"
       /\ dense.get.ok
       /\ \A k \in 1..(Len(dense.get.calls) - 1) :
             /\ dense.get.calls[k][1] <= dense.get.calls[k + 1][1]
             /\ dense.get.calls[k + 1][2] <= dense.get.calls[k][2]
             /\ dense.get.calls[k + 1][2] - dense.get.calls[k + 1][1]
                   < dense.get.calls[k][2] - dense.get.calls[k][1]
       /\ dense.get.t \notin DenseNodeTimes
          => \E i \in 1..(Len(dense.points) - 1) :
                /\ dense.points[i].Time < dense.get.t
                /\ dense.get.t < dense.points[i + 1].Time
                /\ dense.get.pair = <<i - 1, i>>
                /\ dense.get.x = LinearInterpolator_FindValue(
                                     dense.points[i], dense.points[i + 1],
                                     dense.get.t)

\* C24: a call NextStep(h) of a ConfigurableStepper that returns ok = TRUE
\* returns a point whose time is the time of the point returned before (or
\* the initial time) plus h, also for an h that is not the configured step.
C24_NextStepByDelta ==
    \A d \in Dirs :
        (obs[d].delta # Nil /\ obs[d].fault = "none" /\ obs[d].ok)
        => obs[d].time = obs[d].prev + obs[d].delta

\* the point of the last step of StepUntil and the point before it
SUNew == su.pts[Len(su.pts)]

SUOld == IF Len(su.pts) = 1 THEN su.init ELSE su.pts[Len(su.pts) - 1]

\* the events whose crossing values at these two points differ in sign,
\* zero counting for both signs
SUChanged ==
    { i \in 1..Len(su.evs) :
        LET cprev == Cross(su.evs[i], SUOld)
            cnew == Cross(su.evs[i], SUNew)
        IN  (cprev <= 0 /\ cnew >= 0) \/ (cprev >= 0 /\ cnew <= 0) }

\* C26: after a step of StepUntil in which Next() returned a point, the
\* events localized are those whose crossing values at the previous point
\* and at the new point differ in sign, zero included; the Actions invoked
\* are theirs, all of them unless one returned false; and the crossing
\* value tracked for every event is its value at the new point.
C26_SignChangeFires ==
    (su.nexts > 0 /\ su.nextOk)
    => /\ { su.fired[j].index + 1 : j \in 1..Len(su.fired) } = SUChanged
       /\ Len(su.fired) = Cardinality(SUChanged)
       /\ { LastActs[j].index + 1 : j \in 1..Len(LastActs) } \subseteq SUChanged
       /\ (\A j \in 1..Len(LastActs) : LastActs[j].cont)
          => Len(LastActs) = Cardinality(SUChanged)
       /\ \A i \in 1..Len(su.evs) : su.vs[i] = Cross(su.evs[i], SUNew)

(***************************************************************************)
(* SpecAdapt: a caller makes the Forward and the Backward stepper of an    *)
(* adaptive method, for an initial Step below Hmin, between Hmin and Hmax  *)
(* or above Hmax, and calls Next on them in any order.  obs is as in       *)
(* Spec; the trials field of a Richardson stepper lists the trials of the  *)
(* last call of Next.                                                      *)
(***************************************************************************)
AdaptSteps == {HminH \div 2, StepH, 2 * Scale}

\* the tolerances of a Runge-Kutta-Fehlberg method: 0.05 and 0.1
RKFTolerances == {TolH, 2 * TolH}

AdaptMethods ==
    { [Method(k[1], k[2], k[3]) EXCEPT !.Step = h] :
        k \in { <<"adaptive", "euler", 1>>, <<"adaptive", "rk4", 4>>,
                <<"rkFehlberg", "none", 4>>, <<"adaptivePC", "none", 4>> },
        h \in AdaptSteps }
    \cup { [Method("rkFehlberg", "none", 4) EXCEPT !.Step = h,
                                                    !.Tolerance = tol] :
             h \in AdaptSteps, tol \in RKFTolerances }

\* the derivatives of Derivs; for the Runge-Kutta-Fehlberg method also the
\* stiffer x' = -x and (for an initial Step of at most 1/2) x' = -4x; for
\* the adaptive predictor-corrector also x' = -x/2 for |t| <= 9/4
AdaptDerivs(m) ==
    IF m.kind = "rkFehlberg"
    THEN Derivs \cup { [a |-> -k * Scale, b |-> 0, junk |-> "nil",
                        lo |-> -8 * Scale,
                        hi |-> 8 * Scale] :
                        k \in IF m.Step <= StepH THEN {1, 4} ELSE {1} }
    ELSE IF m.kind = "adaptivePC"
    THEN Derivs \cup { [a |-> -(Scale \div 2), b |-> 0, junk |-> "nil",
                        lo |-> -((9 * Scale) \div 4),
                        hi |-> (9 * Scale) \div 4] }
    ELSE Derivs

InitAdapt ==
    /\ meth \in AdaptMethods
    /\ \E f \in AdaptDerivs(meth) :
         LET i == [f |-> f, Time |-> T0, ref |-> "ivp"]
             m0 == [l \in Locs |-> IF l = "ivp" THEN X0 ELSE 0]
             F == Forward(meth, i, m0, "fwd")
             B == Backward(meth, i, F.m, "bwd")
         IN  /\ ivp = i
             /\ fwd = F.s
             /\ bwd = B.s
             /\ mem = B.m
    /\ obs = [d \in Dirs |-> Obs0]
    /\ su = Idle /\ fp = Idle /\ cache = Idle /\ dense = Idle /\ call = Idle

NextAdapt == \E d \in Dirs : CallNext(d)

SpecAdapt == InitAdapt /\ [][NextAdapt]_vars

\* the trials of the last call of Next on the stepper of direction d
Trials(d) == Stepper(d).trials

\* C27: in a Richardson stepper a trial whose three inner steps succeeded
\* is accepted exactly when its error estimate is at most tol * |h|; the
\* accepted trial is the last of its call, which returns the point at the
\* time of the trial plus the h tried; after a rejected trial the time and
\* the confirmed value are those the trial started with.
C27_AcceptOrReject ==
    \A d \in Dirs : \A k \in 1..Len(Trials(d)) :
        Trials(d)[k].stage = "done"
        => /\ Trials(d)[k].verdict \in {"accept", "reject"}
           /\ (Trials(d)[k].verdict = "accept")
                 = (Trials(d)[k].err
                       <= FMul(meth.Tolerance, Abs(Trials(d)[k].h)))
           /\ Trials(d)[k].verdict = "accept"
              => /\ k = Len(Trials(d))
                 /\ obs[d].ok
                 /\ Stepper(d).t = Trials(d)[k].t + Trials(d)[k].h
                 /\ obs[d].time = obs[d].prev + Trials(d)[k].h
           /\ Trials(d)[k].verdict = "reject"
              => IF k < Len(Trials(d))
                 THEN /\ Trials(d)[k + 1].t = Trials(d)[k].t
                      /\ Trials(d)[k + 1].x = Trials(d)[k].x
                 ELSE /\ ~obs[d].ok
                      /\ Stepper(d).t = Trials(d)[k].t
                      /\ mem[Stepper(d).ref] = Trials(d)[k].x

\* C28: in a trial of a Richardson stepper the second half step is applied
\* to the state at the time of the trial plus h/2.
C28_SecondHalfFromMidpoint ==
    \A d \in Dirs : \A k \in 1..Len(Trials(d)) :
        Trials(d)[k].stage \in {"half2", "done"}
        => Trials(d)[k].tH = Trials(d)[k].t + Quot(Trials(d)[k].h, 2)

\* C29: after a trial of a Richardson stepper in which an inner step
\* failed, the next trial has half the step, the same time and the same
\* confirmed value, and both its full step and its half steps start from
\* that value.
C29_RetryFromConfirmed ==
    \A d \in Dirs : \A k \in 1..(Len(Trials(d)) - 1) :
        Trials(d)[k].verdict = "fail"
        => /\ Trials(d)[k + 1].h = Quot(Trials(d)[k].h, 2)
           /\ Trials(d)[k + 1].t = Trials(d)[k].t
           /\ Trials(d)[k + 1].x = Trials(d)[k].x
           /\ Trials(d)[k + 1].xF = Trials(d)[k].x
           /\ Trials(d)[k + 1].stage # "full"
              => Trials(d)[k + 1].xH = Trials(d)[k].x

\* C30: every point an adaptive stepper returns lies a step h with
\* Hmin <= |h| <= Hmax after the point returned before it (or the initial
\* point), whatever the initial Step.
C30_StepWithinBounds ==
    \A d \in Dirs :
        (obs[d].calls > 0 /\ obs[d].fault = "none" /\ obs[d].ok)
        => /\ meth.Hmin <= Abs(obs[d].time - obs[d].prev)
           /\ Abs(obs[d].time - obs[d].prev) <= meth.Hmax

(***************************************************************************)
(* SpecUpdate: one call of AdaptiveUpdateStep on arguments drawn from      *)
(* small sets, with tol > 0 and max > 0 as every method passes them.       *)
(***************************************************************************)
UpdateSteps ==
    { sg * h : sg \in {-1, 1},
               h \in {0, Scale \div 16, Scale \div 4, Scale \div 2, Scale,
                      2 * Scale} }
UpdateTols == {Scale \div 20, Scale \div 5}
UpdateErrs == {1, Scale \div 100, Scale \div 20, Scale \div 5, Scale, 8 * Scale}
UpdateMaxs == {Scale \div 2, Scale}
UpdateOrders == {1, 2, 4}

InitUpdate ==
    /\ \E step \in UpdateSteps, tol \in UpdateTols, err \in UpdateErrs,
          max \in UpdateMaxs, order \in UpdateOrders :
         call = [pc |-> "args", step |-> step, tol |-> tol, err |-> err,
                 max |-> max, order |-> order, result |-> Nil]
    /\ meth = Idle /\ ivp = Idle /\ mem = Idle /\ fwd = Idle /\ bwd = Idle
    /\ obs = Idle /\ su = Idle /\ fp = Idle /\ cache = Idle /\ dense = Idle

Update_Call ==
    /\ call.pc = "args"
    /\ call' = [call EXCEPT
                  !.pc = "done",
                  !.result = AdaptiveUpdateStep(call.step, call.tol, call.err,
                                                call.max, call.order)]
    /\ UNCHANGED <<meth, ivp, mem, fwd, bwd, obs, su, fp, cache, dense>>

NextUpdate == Update_Call

SpecUpdate == InitUpdate /\ [][NextUpdate]_vars

\* the factors q in [0.1, 4] that can take step to result: 0.1, 4 and those
\* next to result / step (FMul(q, step) moves by at most two units per unit
\* of q and stays for at most 16 units of q, |step| being 1/16 to 2)
QNear(result, step) ==
    LET g == FDivCap(result, step, 8)
    IN  {QMin, QMax} \cup { q \in (g - 2)..(g + 20) : QMin <= q /\ q <= QMax }

\* C31: AdaptiveUpdateStep returns q * step with q in [0.1, 4] (for order 1
\* the ratio tol * |step| / (2 * err) clamped to that interval), cut to max
\* in size; for step # 0 and err > 0 the result has the sign of step, and
\* its size is at most max and at most 4 * |step|.
C31_UpdateStepBounded ==
    (call.pc = "done" /\ call.step # 0 /\ call.err > 0)
    => /\ call.order = 1
          => call.result =
               ClampStep(FMul(ClampQ(Adjust(call.step, call.tol, call.err)),
                              call.step), call.max)
       /\ \E q \in QNear(call.result, call.step) :
            call.result = ClampStep(FMul(q, call.step), call.max)
       /\ (call.result > 0) = (call.step > 0)
       /\ (call.result < 0) = (call.step < 0)
       /\ Abs(call.result) <= call.max
       /\ Abs(call.result) <= 4 * Abs(call.step)

\* a backward step that grows and is cut to -max
C31_Witness ==
    /\ call.pc = "done" /\ call.step < 0 /\ call.err > 0
    /\ Abs(call.step) < call.max
    /\ call.result = -call.max

\* the trials of the last call of Next on a Runge-Kutta-Fehlberg stepper
RKFTrials(d) == Stepper(d).rkf

\* C32: a trial of the Runge-Kutta-Fehlberg stepper whose six stages
\* succeeded is accepted exactly when its error estimate is at most
\* tol * |h|; the accepted trial advances the time by h; after a rejected
\* trial the step is AdaptiveUpdateStep of order 4 and the time and the
\* value are unchanged.
C32_RKFAcceptRule ==
    \A d \in Dirs : \A k \in 1..Len(RKFTrials(d)) :
        RKFTrials(d)[k].verdict # "fail"
        => /\ (RKFTrials(d)[k].verdict = "accept")
                 = (RKFTrials(d)[k].err
                       <= FMul(meth.Tolerance, Abs(RKFTrials(d)[k].h)))
           /\ RKFTrials(d)[k].verdict = "accept"
              => /\ k = Len(RKFTrials(d))
                 /\ obs[d].ok
                 /\ Stepper(d).t = RKFTrials(d)[k].t + RKFTrials(d)[k].h
           /\ RKFTrials(d)[k].verdict = "reject"
              => LET nh == AdaptiveUpdateStep(RKFTrials(d)[k].h,
                               meth.Tolerance, RKFTrials(d)[k].err,
                               meth.Hmax, 4)
                 IN  IF k < Len(RKFTrials(d))
                     THEN /\ RKFTrials(d)[k + 1].h = nh
                          /\ RKFTrials(d)[k + 1].t = RKFTrials(d)[k].t
                          /\ RKFTrials(d)[k + 1].x = RKFTrials(d)[k].x
                     ELSE /\ ~obs[d].ok
                          /\ Stepper(d).h = nh
                          /\ Stepper(d).t = RKFTrials(d)[k].t
                          /\ mem[Stepper(d).ref] = RKFTrials(d)[k].x

\* a call of Next on the stepper of direction d that returns a point, made
\* by a caller that has called nothing but Next on it
NextReturns(d) ==
    /\ obs'[d].calls = obs[d].calls + 1
    /\ obs'[d].onlyNext
    /\ obs'[d].fault = "none" /\ obs'[d].ok

\* C33: each of the first three calls of Next that an Adams-Bashforth
\* stepper answers with a point takes one RK4 step of size h from the
\* latest point and records its value in the history; each later one
\* applies the four-step formula to the history; every one of them returns
\* the point at the latest time plus h.
C33_BashforthBootstrap ==
    [][\A d \in Dirs :
         (meth.kind = "adamsBashford" /\ NextReturns(d))
         => /\ obs'[d].time = obs[d].time + Stepper(d).h
            /\ obs'[d].good = obs[d].good + 1
            /\ obs[d].good < 3
               => /\ obs'[d].value
                       = RK4Step(Stepper(d).f, obs[d].time, obs[d].value,
                                 Stepper(d).h).x
                  /\ (IF d = "fwd" THEN fwd' ELSE bwd')
                         .steps[2 - obs[d].good].Value = obs'[d].value
            /\ obs[d].good >= 3
               => obs'[d].value
                    = adamsBashfordStep(
                          [Stepper(d).steps EXCEPT ![0].Deriv =
                              Derivative(Stepper(d).f, obs[d].time,
                                         obs[d].value).v],
                          0, Stepper(d).h).v]_vars

\* the fifth point of an Adams-Bashforth stepper has been returned
C33_Witness ==
    \E d \in Dirs :
        /\ meth.kind = "adamsBashford" /\ obs[d].onlyNext
        /\ obs[d].ok /\ obs[d].good >= 5

\* the stepper of direction d after the step
StepperAfter(d) == IF d = "fwd" THEN fwd' ELSE bwd'

\* the value a predictor-corrector step of size h gives from the point
\* (t, x) and the history steps: the Adams-Bashforth predictor and then the
\* Adams-Moulton corrector
Corrected(f, steps, t, x, h) ==
    LET st1 == [steps EXCEPT ![1].Deriv = Derivative(f, t, x).v]
        p == adamsBashfordStep(st1, 1, h).v
        st3 == [st1 EXCEPT ![0].Value = p,
                           ![0].Deriv = Derivative(f, t + h, p).v]
    IN  adamsMoultonStep(st3, 0, h).v

\* C34: each of the first three calls of Next that a predictor-corrector
\* stepper answers with a point is an RK4 step of size h from the latest
\* point; each later one returns the Adams-Bashforth prediction corrected
\* by the Adams-Moulton formula, and leaves the history shifted, with the
\* returned value as its newest entry and the predictor slot cleared.
C34_CorrectorAfterBootstrap ==
    [][\A d \in Dirs :
         (meth.kind = "pc" /\ NextReturns(d))
         => /\ obs[d].good < 3
               => obs'[d].value
                    = RK4Step(Stepper(d).f, obs[d].time, obs[d].value,
                              Stepper(d).h).x
            /\ obs[d].good >= 3
               => /\ obs'[d].value
                       = Corrected(Stepper(d).f, Stepper(d).steps,
                                   obs[d].time, obs[d].value, Stepper(d).h)
                  /\ StepperAfter(d).steps[0] = [Value |-> Nil, Deriv |-> Nil]
                  /\ StepperAfter(d).steps[1].Value = obs'[d].value
                  /\ \A i \in 2..4 :
                        StepperAfter(d).steps[i].Value
                            = Stepper(d).steps[i - 1].Value]_vars

\* the entries steps[off], steps[off + 1], ... steps[off + 3] of the
\* stepper of direction d are the four latest points the caller has seen,
\* newest first and h apart, the newest at the stepper's time, and the
\* derivative of each entry after the newest is f at its time and value
HistoryIsTrue(d, off) ==
    /\ Len(obs[d].hist) = 4
    /\ \A i \in 0..3 :
          /\ obs[d].hist[i + 1].Time = Stepper(d).t - i * Stepper(d).h
          /\ Stepper(d).steps[off + i].Value = obs[d].hist[i + 1].Value
          /\ i >= 1
             => Stepper(d).steps[off + i].Deriv
                  = Derivative(Stepper(d).f, obs[d].hist[i + 1].Time,
                               obs[d].hist[i + 1].Value).v

\* C35: when the next call of Next on a multistep stepper applies the
\* Adams-Bashforth formula (an Adams-Bashforth stepper that has returned
\* three points or more, an adaptive predictor-corrector stepper that has
\* returned all the points of its bootstrap), the history entries the
\* formula reads are the values returned at t, t-h, t-2h, t-3h with f
\* evaluated at each.
C35_HistoryIsTrue ==
    \A d \in Dirs :
        (obs[d].onlyNext /\ obs[d].fault = "none" /\ obs[d].ok)
        => /\ (meth.kind = "adamsBashford" /\ obs[d].good >= 3)
              => HistoryIsTrue(d, 0)
           /\ (meth.kind = "adaptivePC" /\ obs[d].good >= 4
                  /\ Stepper(d).init = 0)
              => HistoryIsTrue(d, 1)

\* C36: whenever tryStep runs in an adaptive predictor-corrector stepper,
\* the history it reads was built with the current step: every change of
\* the step is followed by a rebuild of the history before the multistep
\* formula is applied again.
C36_HistorySpacedByStep ==
    \A d \in Dirs : \A k \in 1..Len(Stepper(d).runs) :
        Stepper(d).runs[k].spaced = Stepper(d).runs[k].h

\* C37: an adaptive predictor-corrector stepper returns every point it has
\* accepted.  While the history is to be rebuilt at the next call (after a
\* growth of the step), the point returned latest is the one the rebuild
\* will start from; once the history has been rebuilt from the state at
\* time t with step h, no call returns without a point before the points
\* at t + h, ..., t + 4h have been returned, the calls return them in that
\* order, t is the time, with its value, of the point returned before
\* them, and the first of them is the RK4 step of size h from it.
C37_NoPointDropped ==
    \A d \in Dirs :
        (meth.kind = "adaptivePC" /\ obs[d].fault = "none")
        => /\ (Stepper(d).init = 5 /\ obs[d].calls > 0 /\ obs[d].ok)
              => /\ obs[d].time = Stepper(d).t
                 /\ obs[d].value = Stepper(d).steps[4].Value
           /\ (Stepper(d).base.h # Nil /\ Stepper(d).seen < 4) => obs[d].ok
           /\ (Stepper(d).base.h # Nil /\ obs[d].ok /\ Stepper(d).seen \in 1..4)
              => /\ obs[d].time
                      = Stepper(d).base.t + Stepper(d).seen * Stepper(d).base.h
                 /\ Stepper(d).seen < Len(obs[d].hist)
                    => obs[d].hist[Stepper(d).seen + 1]
                         = [Time |-> Stepper(d).base.t,
                            Value |-> Stepper(d).base.x]
                 /\ Stepper(d).seen = 1
                    => obs[d].value
                         = RK4Step(Stepper(d).f, Stepper(d).base.t,
                                   Stepper(d).base.x, Stepper(d).base.h).x

\* a point has been returned after a rebuild of the history from a state
\* later than the initial one
C37_Witness ==
    \E d \in Dirs :
        /\ meth.kind = "adaptivePC" /\ obs[d].fault = "none" /\ obs[d].ok
        /\ Stepper(d).base.h # Nil /\ Stepper(d).base.t > T0
        /\ Stepper(d).seen >= 1

(***************************************************************************)
(* SpecStep: one call of a fixed-step update function on a state (t, x)    *)
(* and a step h drawn from small sets, with a Derivative that is defined   *)
(* on the time domain of f and returns nil or a vector when it fails.      *)
(***************************************************************************)
StepFunctions == {"euler", "modEuler", "rk4"}
StepTimes == {0, (3 * Scale) \div 2, (7 * Scale) \div 4, 2 * Scale}
StepSizes == { sg * h : sg \in {-1, 1}, h \in {Scale \div 4, Scale \div 2} }

InitStep ==
    /\ \E fn \in StepFunctions, f \in JunkDerivs, t \in StepTimes,
          h \in StepSizes :
         call = [pc |-> "args", fn |-> fn, f |-> f, t |-> t, x |-> X0,
                 h |-> h,
                 result |-> [ok |-> FALSE, x |-> X0, fault |-> "none",
                             used |-> FALSE]]
    /\ meth = Idle /\ ivp = Idle /\ mem = Idle /\ fwd = Idle /\ bwd = Idle
    /\ obs = Idle /\ su = Idle /\ fp = Idle /\ cache = Idle /\ dense = Idle

\* eulerStep and RK4Step return at once when an evaluation fails
StepResult(c) ==
    With(ApplyMethod(c.fn, c.f, c.t, c.x, c.h), LAMBDA r :
      [ok |-> r.ok, x |-> r.x, fault |-> r.fault,
       used |-> c.fn = "modEuler" /\ r.used])

Step_Call ==
    /\ call.pc = "args"
    /\ call' = [call EXCEPT !.pc = "done", !.result = StepResult(call)]
    /\ UNCHANGED <<meth, ivp, mem, fwd, bwd, obs, su, fp, cache, dense>>

NextStepFn == Step_Call

SpecStep == InitStep /\ [][NextStepFn]_vars

\* the times at which a step of size h from time t evaluates the derivative
StageTimes(fn, t, h) ==
    IF fn = "euler" THEN {t}
    ELSE IF fn = "modEuler" THEN {t, t + h}
    ELSE {t, t + Quot(h, 2), t + h}

\* C38: a fixed-step update function (Euler, modified Euler, RK4) reports
\* failure when one of the derivative evaluations of the step is outside
\* the domain, and does not use what a failed evaluation returned.
C38_StepFailsWithStage ==
    (call.pc = "done"
        /\ \E u \in StageTimes(call.fn, call.t, call.h) :
              ~Derivative(call.f, u, call.x).ok)
    => /\ ~call.result.ok
       /\ call.result.fault = "none"
       /\ ~call.result.used

\* the events whose Action was invoked in the last step of StepUntil
LastDispatched == { LastActs[j].index + 1 : j \in 1..Len(LastActs) }

\* C39: a zero of an event's crossing function triggers its Action once.
\* When Next() returned a point at which the crossing value of an event is
\* exactly 0, the step ending at that point dispatches the event (unless an
\* Action invoked before it in that step returned false); and the step that
\* follows, which starts from that point, localizes the event without
\* hanging and does not invoke its Action again.
C39_ZeroFiresOnce ==
    \A i \in 1..Len(su.evs) :
        /\ (su.nexts > 0 /\ su.nextOk /\ Cross(su.evs[i], SUNew) = 0)
           => \/ i \in LastDispatched
              \/ \E j \in 1..Len(LastActs) : ~LastActs[j].cont
        /\ (su.nexts > 1 /\ su.nextOk /\ Cross(su.evs[i], SUOld) = 0)
           => /\ su.why = "FindPoint"
                 => FindPoint(su.evs[i], SUOld, SUNew).fault = "none"
              /\ i \notin LastDispatched

\* C40: a CacheSolver and its Steppers stay in lockstep.  After every call
\* of Get, StepForward, StepBackward, StepToEnd or StepToBeginning that
\* returned, the forward list after the initial point holds exactly the
\* points forStep has returned so far, in order, and the point forStep
\* returned last is at End(); likewise the backward list, backStep and
\* Start().
C40_Lockstep ==
    cache.fault = "none"
    => /\ Tail(cache.forward) = cache.femitted
       /\ cache.fpulled.Time = CacheSolver_End(World.c)
       /\ cache.backward = cache.bemitted
       /\ cache.bpulled.Time = CacheSolver_Start(World.c)


====
